---- MODULE Spec2Model ----
(***************************************************************************)
(* Model of the hemp-data-populator harvest pipeline:                      *)
(*   DataHarvester.runOnce and runSchedule (core/DataHarvester.ts),        *)
(*   Scraper.scrape, DataProcessor.process and its helpers                 *)
(*   (modules/DataProcessor.ts), DatabaseService (services).               *)
(*                                                                         *)
(* A JavaScript string is modelled as a sequence of one-character strings; *)
(* characters that cannot be written in a TLA+ string literal are named    *)
(* tokens ("BEL" for U+0007, "BULLET" for U+2022, ...).                    *)
(***************************************************************************)
EXTENDS Integers, Sequences, FiniteSets, TLC

(***************************************************************************)
(* Strings                                                                 *)
(***************************************************************************)

\* a string literal as a sequence of characters
S(s) == [i \in 1..Len(s) |-> SubSeq(s, i, i)]

UpperChars == S("ABCDEFGHIJKLMNOPQRSTUVWXYZ")
LowerChars == S("abcdefghijklmnopqrstuvwxyz")
DigitChars == {"0", "1", "2", "3", "4", "5", "6", "7", "8", "9"}

\* the characters matched by \s and removed by String.prototype.trim
WhiteSpace == {" ", "\t", "\n", "\r"}

\* the characters matched by [\u0000-\u001F\u007F-\u009F]
ControlChars == {"\t", "\n", "\r", "BEL", "DEL"}

\* the characters matched by [\s\-•–—]
LeadDecoration == WhiteSpace \cup {"-", "BULLET", "ENDASH", "EMDASH"}

MinOf(set) == CHOOSE m \in set : \A n \in set : m <= n
MaxOf(set) == CHOOSE m \in set : \A n \in set : m >= n

\* the lower-case letter of every upper-case letter, and the reverse
LowerOf == [c \in {UpperChars[i] : i \in DOMAIN UpperChars} |->
              LowerChars[CHOOSE i \in DOMAIN UpperChars : UpperChars[i] = c]]
UpperOf == [c \in {LowerChars[i] : i \in DOMAIN LowerChars} |->
              UpperChars[CHOOSE i \in DOMAIN LowerChars : LowerChars[i] = c]]

toLowerChar(c) == IF c \in DOMAIN LowerOf THEN LowerOf[c] ELSE c

toUpperChar(c) == IF c \in DOMAIN UpperOf THEN UpperOf[c] ELSE c

\* String.prototype.toLowerCase
toLowerCase(s) == [i \in DOMAIN s |-> toLowerChar(s[i])]

\* String.prototype.includes
includes(s, sub) ==
  \E i \in 0..(Len(s) - Len(sub)) : SubSeq(s, i + 1, i + Len(sub)) = sub

\* String.prototype.trim
trim(s) ==
  LET keep == {i \in DOMAIN s : s[i] \notin WhiteSpace}
  IN  IF keep = {} THEN <<>> ELSE SubSeq(s, MinOf(keep), MaxOf(keep))

\* /^\d+$/.test(s)
isNumeric(s) == Len(s) > 0 /\ \A i \in DOMAIN s : s[i] \in DigitChars

\* s.replace(/^[chars]+/, '')
stripLeading(s, chars) ==
  LET keep == {i \in DOMAIN s : s[i] \notin chars}
  IN  IF keep = {} THEN <<>> ELSE SubSeq(s, MinOf(keep), Len(s))

\* s.replace(/\s+/g, ' ')
collapseWhiteSpace(s) ==
  LET marked == [i \in DOMAIN s |->
                   IF s[i] \notin WhiteSpace THEN s[i]
                   ELSE IF i > 1 /\ s[i - 1] \in WhiteSpace THEN "" ELSE " "]
  IN  SelectSeq(marked, LAMBDA c : c # "")

\* s.replace(/\s+/g, '')
removeWhiteSpace(s) == SelectSeq(s, LAMBDA c : c \notin WhiteSpace)

\* s.replace(/[\u0000-\u001F\u007F-\u009F]/g, '')
removeControlChars(s) == SelectSeq(s, LAMBDA c : c \notin ControlChars)

(***************************************************************************)
(* DataProcessor: validation, cleaning, hashing                            *)
(***************************************************************************)

validPlantParts ==
  << S("seed"), S("seeds"), S("fiber"), S("fibre"), S("flower"), S("leaves"),
     S("leaf"), S("stem"), S("stalk"), S("hurds"), S("hurd"), S("roots"),
     S("root"), S("oil"), S("whole plant"), S("biomass"), S("sprouts"),
     S("extract") >>

GistMinDescription == 20

\* a plant part rule that lets every label through
isValidPlantPartAny(plant_part) == TRUE

isValidPlantPart(plant_part) ==
  LET plantPartLower == toLowerCase(plant_part)
  IN  \E k \in DOMAIN validPlantParts :
        \/ includes(plantPartLower, validPlantParts[k])
        \/ includes(validPlantParts[k], plantPartLower)

\* isValidProduct with 'cbd' missing from the keyword test
isValidProductNoCbd(product) ==
  LET lowerName == toLowerCase(product.product_name)
      lowerDesc == toLowerCase(product.description)
  IN
  IF isNumeric(product.product_name) THEN FALSE
  ELSE IF isNumeric(product.plant_part) THEN FALSE
  ELSE IF product.product_name = <<>> \/ Len(product.product_name) < 3 THEN FALSE
  ELSE IF (product.description = <<>> \/ trim(product.description) = <<>>)
          /\ Len(product.product_name) < 5 THEN FALSE
  ELSE IF ~includes(lowerName, S("hemp")) /\ ~includes(lowerName, S("cannabis"))
          /\ ~includes(lowerDesc, S("hemp"))
       THEN FALSE
  ELSE IF product.industry = <<>> \/ product.industry = S("Other")
          \/ isNumeric(product.industry) THEN FALSE
  ELSE IF ~isValidPlantPart(product.plant_part) THEN FALSE
  ELSE IF product.source_url # <<>> /\ includes(product.source_url, S("gist.github"))
          /\ (product.description = <<>>
              \/ Len(product.description) < GistMinDescription) THEN FALSE
  ELSE TRUE

\* DataProcessor.isValidProduct, with its early returns in source order
isValidProduct(product) ==
  LET lowerName == toLowerCase(product.product_name)
      lowerDesc == toLowerCase(product.description)
  IN
  IF isNumeric(product.product_name) THEN FALSE
  ELSE IF isNumeric(product.plant_part) THEN FALSE
  ELSE IF product.product_name = <<>> \/ Len(product.product_name) < 3 THEN FALSE
  ELSE IF (product.description = <<>> \/ trim(product.description) = <<>>)
          /\ Len(product.product_name) < 5 THEN FALSE
  ELSE IF ~includes(lowerName, S("hemp")) /\ ~includes(lowerName, S("cannabis"))
          /\ ~includes(lowerName, S("cbd")) /\ ~includes(lowerDesc, S("hemp"))
       THEN FALSE
  ELSE IF product.industry = <<>> \/ product.industry = S("Other")
          \/ isNumeric(product.industry) THEN FALSE
  ELSE IF ~isValidPlantPart(product.plant_part) THEN FALSE
  ELSE IF product.source_url # <<>> /\ includes(product.source_url, S("gist.github"))
          /\ (product.description = <<>>
              \/ Len(product.description) < GistMinDescription) THEN FALSE
  ELSE TRUE

\* DataProcessor.cleanText
cleanText(text) ==
  trim(stripLeading(removeControlChars(collapseWhiteSpace(trim(text))),
                    LeadDecoration))

\* DataProcessor.normalizeText: lower-case, then upper-case the first
\* character of every word of split(' ')
normalizeText(text) ==
  LET lower == toLowerCase(cleanText(text))
  IN  [i \in DOMAIN lower |->
         IF i = 1 \/ lower[i - 1] = " " THEN toUpperChar(lower[i]) ELSE lower[i]]

isLetter(c) == c \in DOMAIN LowerOf \/ c \in DOMAIN UpperOf

\* \w
isWordChar(c) == isLetter(c) \/ c \in DigitChars \/ c = "_"

\* text.split(/\W+/): the runs of word characters in order, with the empty
\* string split leaves in front of a leading and behind a trailing separator
splitWords(text) ==
  LET starts == {i \in DOMAIN text :
                   isWordChar(text[i]) /\ (i = 1 \/ ~isWordChar(text[i - 1]))}
      endOf(i) == MinOf({j \in i..Len(text) :
                          j = Len(text) \/ ~isWordChar(text[j + 1])})
      startOf(k) == CHOOSE i \in starts : Cardinality({j \in starts : j <= i}) = k
      words == [k \in 1..Cardinality(starts) |->
                 SubSeq(text, startOf(k), endOf(startOf(k)))]
      lead == IF text = <<>> \/ ~isWordChar(text[1]) THEN << <<>> >> ELSE <<>>
      trail == IF text # <<>> /\ ~isWordChar(text[Len(text)]) THEN << <<>> >> ELSE <<>>
  IN  lead \o words \o trail

\* extractKeywords: stopWords
stopWords ==
  { S("the"), S("a"), S("an"), S("and"), S("or"), S("but"), S("in"), S("on"),
    S("at"), S("to"), S("for"), S("of"), S("with"), S("by"), S("from"), S("as"),
    S("is"), S("was"), S("are"), S("were"), S("been"), S("be"), S("have"),
    S("has"), S("had"), S("do"), S("does"), S("did"), S("will"), S("would"),
    S("could"), S("should"), S("may"), S("might"), S("must"), S("shall"),
    S("can"), S("cannot") }

\* word.length > 3
MinKeyword == 3

\* keywords.slice(0, 20)
MaxKeywords == 20

\* a filter that keeps the stop words
keepWordLong(word) == Len(word) > MinKeyword

\* word.length > 3 && !stopWords.has(word)
keepWord(word) == Len(word) > MinKeyword /\ word \notin stopWords

\* filter((word, index, self) => self.indexOf(word) === index)
firstOccurrences(words) ==
  SelectSeq([i \in DOMAIN words |->
               IF \E j \in 1..(i - 1) : words[j] = words[i] THEN <<>> ELSE words[i]],
            LAMBDA word : word # <<>>)

\* the text extractKeywords takes the words from
keywordText(product) ==
  product.product_name \o <<" ">> \o product.description \o <<" ">>
    \o product.plant_part \o <<" ">> \o product.industry

\* the body of extractKeywords on that text
keywordsOf(text) ==
  LET words == splitWords(toLowerCase(text))
      keywords == firstOccurrences(SelectSeq(words, keepWord))
  IN  SubSeq(keywords, 1, IF Len(keywords) < MaxKeywords THEN Len(keywords) ELSE MaxKeywords)

extractKeywords(product) == keywordsOf(keywordText(product))

\* benefits?.map(...) raises a TypeError when the JSON item carried a
\* benefits value that is not an array (parseJSONItem copies it unchecked)
cleanProductThrows(product) == product.benefits = "string"

\* DataProcessor.cleanProduct
cleanProduct(product) ==
  [ product_name |-> cleanText(product.product_name),
    plant_part   |-> normalizeText(product.plant_part),
    industry     |-> normalizeText(product.industry),
    description  |-> cleanText(product.description),
    source_url   |-> product.source_url,
    benefits     |-> product.benefits,
    keywords     |-> extractKeywords(product) ]

\* DataProcessor.enrichProduct: benefits and sustainability aspects are
\* added to the record and the other fields kept; the keywords are taken
\* anew from the cleaned record
enrichProduct(product) == [product EXCEPT !.keywords = extractKeywords(product)]

\* the key without the toLowerCase call
hashKeyCaseSensitive(product) ==
  removeWhiteSpace(
    product.product_name \o <<"|">> \o product.plant_part \o <<"|">>
      \o product.industry)

\* the key string of DataProcessor.generateHash
hashKey(product) ==
  removeWhiteSpace(toLowerCase(
    product.product_name \o <<"|">> \o product.plant_part \o <<"|">>
      \o product.industry))

\* SHA-256 is modelled as an injective tagging of the key string
generateHash(product) == [sha256 |-> hashKey(product)]


(***************************************************************************)
(* DataProcessor.extractCompanies                                          *)
(***************************************************************************)

\* [\w\s&-]
isNameChar(c) == isWordChar(c) \/ c \in WhiteSpace \/ c \in {"&", "-"}

isWhiteSpace(c) == c \in WhiteSpace

isDigit(c) == c \in DigitChars

\* the last position of the longest run of characters satisfying P that
\* starts at from; from - 1 when there is none
runEnd(text, from, P(_)) ==
  LET last[i \in from..(Len(text) + 1)] ==
        IF i <= Len(text) /\ P(text[i]) THEN last[i + 1] ELSE i - 1
  IN  IF from > Len(text) THEN Len(text) ELSE last[from]

\* word matches at position i, ignoring case (flag i)
matchesAt(text, i, word) ==
  /\ i >= 1
  /\ i + Len(word) - 1 <= Len(text)
  /\ toLowerCase(SubSeq(text, i, i + Len(word) - 1)) = word

NoMatch == [matched |-> FALSE]
Match(from, to, end) == [matched |-> TRUE, from |-> from, to |-> to, end |-> end]

\* [A-Z][\w\s&-]+ with flag i, anchored at p, taken greedily
nameAt(text, p) ==
  IF p + 1 <= Len(text) /\ isLetter(text[p]) /\ isNameChar(text[p + 1])
  THEN Match(p, runEnd(text, p + 1, isNameChar), runEnd(text, p + 1, isNameChar))
  ELSE NoMatch

AttributionWords == {S("manufactured by"), S("produced by"), S("made by"), S("from")}

\* /(?:manufactured by|produced by|made by|from)\s+([A-Z][\w\s&-]+)/gi at i
attributionAt(text, i) ==
  LET words == {w \in AttributionWords : matchesAt(text, i, w)}
  IN  IF words = {} THEN NoMatch
      ELSE LET w == CHOOSE x \in words : TRUE
               ws == i + Len(w)
               wsEnd == runEnd(text, ws, isWhiteSpace)
           IN  IF wsEnd >= ws THEN nameAt(text, wsEnd + 1) ELSE NoMatch

SuffixWords == << S("brand"), S("company"), S("corporation"), S("inc"),
                  S("ltd"), S("llc") >>

\* where the suffix word found at k ends, with the optional dot of inc\.? ltd\.?
suffixEnd(text, k) ==
  LET n == MinOf({m \in DOMAIN SuffixWords : matchesAt(text, k, SuffixWords[m])})
      e == k + Len(SuffixWords[n]) - 1
  IN  IF SuffixWords[n] \in {S("inc"), S("ltd")} /\ e + 1 <= Len(text)
         /\ text[e + 1] = "."
      THEN e + 1 ELSE e

\* /([A-Z][\w\s&-]+)\s+(?:brand|company|corporation|inc\.?|ltd\.?|llc)/gi at i:
\* the group is greedy and gives characters back until \s+ and a suffix follow
suffixAt(text, i) ==
  IF nameAt(text, i) = NoMatch THEN NoMatch
  ELSE LET e == nameAt(text, i).to
           ends == {j \in (i + 1)..e :
                      /\ j + 1 <= Len(text)
                      /\ text[j + 1] \in WhiteSpace
                      /\ \E m \in DOMAIN SuffixWords :
                           matchesAt(text, runEnd(text, j + 1, isWhiteSpace) + 1,
                                     SuffixWords[m])}
       IN  IF ends = {} THEN NoMatch
           ELSE LET j == MaxOf(ends)
                IN  Match(i, j, suffixEnd(text, runEnd(text, j + 1, isWhiteSpace) + 1))

\* /©\s*(\d{4}\s+)?([A-Z][\w\s&-]+)/gi at i; "COPYRIGHT" stands for U+00A9
copyrightAt(text, i) ==
  IF text[i] # "COPYRIGHT" THEN NoMatch
  ELSE LET a == runEnd(text, i + 1, isWhiteSpace)
           yearEnd == runEnd(text, a + 1, isDigit)
           b == runEnd(text, a + 5, isWhiteSpace)
           withYear == IF yearEnd >= a + 4 /\ b >= a + 5
                       THEN nameAt(text, b + 1) ELSE NoMatch
       IN  IF withYear # NoMatch THEN withYear ELSE nameAt(text, a + 1)

\* one attempt of the pattern at position i
patternAt(pattern, text, i) ==
  CASE pattern = "attribution" -> attributionAt(text, i)
    [] pattern = "suffix" -> suffixAt(text, i)
    [] pattern = "copyright" -> copyrightAt(text, i)

\* text.matchAll(pattern): the captured names, left to right; the search
\* resumes behind the previous match
RECURSIVE matchAll(_, _, _)
matchAll(text, start, pattern) ==
  IF start > Len(text) THEN <<>>
  ELSE LET m == patternAt(pattern, text, start)
       IN  IF m = NoMatch THEN matchAll(text, start + 1, pattern)
           ELSE <<SubSeq(text, m.from, m.to)>> \o matchAll(text, m.end + 1, pattern)

MinCompanyName == 2

\* the names the three patterns capture in text, pattern by pattern
capturedNames(text) ==
  matchAll(text, 1, "attribution") \o matchAll(text, 1, "suffix")
    \o matchAll(text, 1, "copyright")

\* companies.push for the cleaned names longer than two characters
pushCompanies(cleaned, industry) ==
  LET kept == SelectSeq(cleaned, LAMBDA n : Len(n) > MinCompanyName)
  IN  [i \in DOMAIN kept |-> [name |-> kept[i], primary_focus |-> industry]]

\* this.cleanText(match[1]) for every match
cleanNames(names) == [i \in DOMAIN names |-> cleanText(names[i])]

\* the companies pushed for one product
companiesOf(product) ==
  pushCompanies(
    cleanNames(capturedNames(product.description \o <<" ">> \o product.source_url)),
    product.industry)

\* this.seenHashes.has(hash)
hasHash(seen, hash) == hash \in seen

\* a processor that tests the set but never fills it
addHashForgets(seen, hash) == seen

\* this.seenHashes.add(hash)
addHash(seen, hash) == seen \cup {hash}

(***************************************************************************)
(* Scraper.scrapeCSV: the text of the file is split into lines, the first  *)
(* line names the columns, every later line is one row.                    *)
(***************************************************************************)

\* String.prototype.split(sep) for a one-character separator
RECURSIVE split(_, _)
split(s, sep) ==
  LET at == {i \in DOMAIN s : s[i] = sep} IN
  IF at = {} THEN <<s>>
  ELSE <<SubSeq(s, 1, MinOf(at) - 1)>> \o split(SubSeq(s, MinOf(at) + 1, Len(s)), sep)

\* a parser that ends a field at every comma
RECURSIVE parseEveryComma(_, _, _, _, _)
parseEveryComma(line, i, current, inQuotes, result) ==
  IF i > Len(line) THEN Append(result, trim(current))
  ELSE IF line[i] = "," THEN parseEveryComma(line, i + 1, <<>>, FALSE, Append(result, trim(current)))
  ELSE IF line[i] = "\"" THEN parseEveryComma(line, i + 1, current, FALSE, result)
  ELSE parseEveryComma(line, i + 1, Append(current, line[i]), FALSE, result)

\* the for loop of parseCSVLine from position i (counted from 1)
RECURSIVE parseFrom(_, _, _, _, _)
parseFrom(line, i, current, inQuotes, result) ==
  IF i > Len(line) THEN Append(result, trim(current))
  ELSE IF line[i] = "\""
       THEN IF inQuotes /\ i < Len(line) /\ line[i + 1] = "\""
            THEN parseFrom(line, i + 2, Append(current, "\""), inQuotes, result)
            ELSE parseFrom(line, i + 1, current, ~inQuotes, result)
  ELSE IF line[i] = "," /\ ~inQuotes
       THEN parseFrom(line, i + 1, <<>>, inQuotes, Append(result, trim(current)))
  ELSE parseFrom(line, i + 1, Append(current, line[i]), inQuotes, result)

\* parseCSVLine of scrapeCSV
parseCSVLine(line) == parseFrom(line, 1, <<>>, FALSE, <<>>)

\* Array.prototype.findIndex for "h includes a or h includes b", counted
\* from 1; 0 stands for -1
findIndex(headers, a, b) ==
  LET hits == {k \in DOMAIN headers : includes(headers[k], S(a)) \/ includes(headers[k], S(b))}
  IN  IF hits = {} THEN 0 ELSE MinOf(hits)

\* cells[idx] when the column exists and the row reaches it, '' otherwise
cellAt(cells, idx) == IF idx >= 1 /\ idx <= Len(cells) THEN cells[idx] ELSE <<>>

\* Scraper.extractPlantPart
extractPlantPart(text) ==
  LET lower == toLowerCase(text) IN
  IF includes(lower, S("seed")) THEN S("seed")
  ELSE IF includes(lower, S("fiber")) \/ includes(lower, S("fibre")) THEN S("fiber")
  ELSE IF includes(lower, S("flower")) \/ includes(lower, S("bud")) THEN S("flower")
  ELSE IF includes(lower, S("leaf")) \/ includes(lower, S("leaves")) THEN S("leaf")
  ELSE IF includes(lower, S("root")) THEN S("root")
  ELSE IF includes(lower, S("stem")) \/ includes(lower, S("stalk")) THEN S("stem")
  ELSE IF includes(lower, S("oil")) THEN S("seed")
  ELSE IF includes(lower, S("whole plant")) THEN S("whole plant")
  ELSE S("unspecified")

\* Scraper.extractIndustry
extractIndustry(text) ==
  LET lower == toLowerCase(text) IN
  IF includes(lower, S("food")) \/ includes(lower, S("nutrition")) THEN S("Food & Nutrition")
  ELSE IF includes(lower, S("textile")) \/ includes(lower, S("fabric"))
          \/ includes(lower, S("clothing")) THEN S("Textiles")
  ELSE IF includes(lower, S("construction")) \/ includes(lower, S("building"))
       THEN S("Construction")
  ELSE IF includes(lower, S("automotive")) \/ includes(lower, S("car")) THEN S("Automotive")
  ELSE IF includes(lower, S("cosmetic")) \/ includes(lower, S("beauty")) THEN S("Cosmetics")
  ELSE IF includes(lower, S("pharmaceutical")) \/ includes(lower, S("medicine"))
       THEN S("Pharmaceutical")
  ELSE IF includes(lower, S("paper")) \/ includes(lower, S("pulp")) THEN S("Paper")
  ELSE IF includes(lower, S("plastic")) \/ includes(lower, S("bioplastic"))
       THEN S("Bioplastics")
  ELSE IF includes(lower, S("energy")) \/ includes(lower, S("fuel")) THEN S("Energy")
  ELSE S("Other")

\* a or b of JavaScript's a || b on strings
orElse(a, b) == IF a # <<>> THEN a ELSE b

\* the lines of the file that are not blank
csvLines(data) == SelectSeq(split(data, "\n"), LAMBDA line : trim(line) # <<>>)

\* the column positions scrapeCSV finds in the header line
csvColumns(header) ==
  LET headers == parseCSVLine(toLowerCase(header)) IN
  [ nameIdx     |-> findIndex(headers, "product", "name"),
    descIdx     |-> findIndex(headers, "description", "use"),
    partIdx     |-> findIndex(headers, "part", "component"),
    industryIdx |-> findIndex(headers, "industry", "sector"),
    benefitsIdx |-> findIndex(headers, "benefit", "benefit"),
    sourceIdx   |-> findIndex(headers, "source", "url") ]

\* a row that takes every line as a record, named or not
rowHasNameAlways(cells, nameIdx) == TRUE

\* cells.length > nameIdx && nameIdx >= 0 && cells[nameIdx]
rowHasName(cells, nameIdx) == nameIdx >= 1 /\ Len(cells) >= nameIdx /\ cells[nameIdx] # <<>>

\* the product built from one row; benefits is "array" when the row has a
\* benefits cell, which scrapeCSV splits into an array, and "absent" otherwise
csvProduct(line, cells, col, url) ==
  [ product_name |-> orElse(cellAt(cells, col.nameIdx), S("Unknown")),
    description  |-> cellAt(cells, col.descIdx),
    plant_part   |-> orElse(cellAt(cells, col.partIdx), extractPlantPart(line)),
    industry     |-> orElse(cellAt(cells, col.industryIdx), extractIndustry(line)),
    source_url   |-> orElse(cellAt(cells, col.sourceIdx), url),
    benefits     |-> IF cellAt(cells, col.benefitsIdx) # <<>> THEN "array" ELSE "absent",
    keywords     |-> <<>> ]

\* the for loop of scrapeCSV over the rows from position i
RECURSIVE csvRows(_, _, _, _)
csvRows(lines, i, col, url) ==
  IF i > Len(lines) THEN <<>>
  ELSE LET cells == parseCSVLine(lines[i]) IN
       (IF rowHasName(cells, col.nameIdx)
        THEN <<csvProduct(lines[i], cells, col, url)>> ELSE <<>>)
         \o csvRows(lines, i + 1, col, url)

\* Scraper.scrapeCSV on the text of the file: the products it returns, and
\* whether it has slept before returning
scrapeCSV(data, url) ==
  LET lines == csvLines(data) IN
  IF Len(lines) < 2 THEN [products |-> <<>>, slept |-> FALSE]
  ELSE [products |-> csvRows(lines, 2, csvColumns(lines[1]), url), slept |-> TRUE]

(***************************************************************************)
(* Discovery.scoreSources / findDataSources.  A score is kept in           *)
(* hundredths: 60 stands for 0.6.  For the four source types the sums the  *)
(* code forms in double arithmetic compare with one another, with the      *)
(* threshold and with 1 as the decimal sums do.                            *)
(***************************************************************************)

\* config.discovery.scoringWeights, in hundredths
scoringWeights == [datasetSize |-> 30, license |-> 20, structure |-> 30, freshness |-> 20]

\* config.discovery.minScoreThreshold, in hundredths
minScoreThreshold == 60

\* the bonus for an official source (.gov, .org), in hundredths
officialBonus == 10

\* the extra bonus for government data (usda, europa), in hundredths
governmentBonus == 15

\* slice(0, 10)
topSources == 10

\* weight * factor, the factor given in tenths (1.0 is 10, 0.5 is 5)
times(weight, tenths) == (weight * tenths) \div 10

openLicenses ==
  { S("mit"), S("apache"), S("gpl"), S("bsd"), S("cc-by"), S("cc0"),
    S("public domain"), S("unlicense"), S("creative commons"), S("open data"),
    S("open government") }

\* Discovery.isOpenLicense
isOpenLicense(license) ==
  \E open \in openLicenses : includes(toLowerCase(license), open)

\* a score based on file type that ranks html above csv and json
structureScoreHtmlFirst(type) ==
  IF type = "html" THEN times(scoringWeights.structure, 10)
  ELSE IF type \in {"csv", "json"} THEN times(scoringWeights.structure, 5)
  ELSE IF type = "pdf" THEN times(scoringWeights.structure, 3)
  ELSE 0

\* scoreSources: the score based on file type
structureScore(type) ==
  IF type \in {"csv", "json"} THEN times(scoringWeights.structure, 10)
  ELSE IF type = "html" THEN times(scoringWeights.structure, 5)
  ELSE IF type = "pdf" THEN times(scoringWeights.structure, 3)
  ELSE 0

\* scoreSources: the score based on license; a missing license is <<>>
licenseScore(license) ==
  IF license # <<>> /\ isOpenLicense(license)
  THEN times(scoringWeights.license, 10)
  ELSE times(scoringWeights.license, 5)

\* scoreSources: the score based on URL patterns
urlScore(url) ==
  (IF includes(url, S(".gov")) \/ includes(url, S(".org")) THEN officialBonus ELSE 0)
    + (IF includes(url, S("usda")) \/ includes(url, S("europa"))
       THEN governmentBonus ELSE 0)

\* a score that counts every dataset as a large one (factor 1.0)
scoreOfLargeDataset(source) ==
  structureScore(source.type) + licenseScore(source.license) + urlScore(source.url)
    + times(scoringWeights.datasetSize, 10) + times(scoringWeights.freshness, 5)

\* the body of the map of scoreSources
scoreOf(source) ==
  structureScore(source.type) + licenseScore(source.license) + urlScore(source.url)
    + times(scoringWeights.datasetSize, 5) + times(scoringWeights.freshness, 5)

\* Discovery.scoreSources
scoreSources(list) == [i \in DOMAIN list |-> [list[i] EXCEPT !.score = scoreOf(list[i])]]

\* a filter predicate that lets every score pass
viableAlways(score) == TRUE

\* source.score >= config.discovery.minScoreThreshold
viable(score) == score >= minScoreThreshold

\* scoredSources.filter(...)
filterSources(list) == SelectSeq(list, LAMBDA source : viable(source.score))

\* one step of the stable sort: source put behind the last element that does
\* not score lower
RECURSIVE insertByScore(_, _)
insertByScore(sorted, source) ==
  IF sorted = <<>> THEN <<source>>
  ELSE IF sorted[Len(sorted)].score >= source.score THEN Append(sorted, source)
  ELSE Append(insertByScore(SubSeq(sorted, 1, Len(sorted) - 1), source),
              sorted[Len(sorted)])

\* a sort that leaves the list as it is
unsorted(list) == list

\* filteredSources.sort((a, b) => b.score - a.score): stable, highest first
RECURSIVE sortByScore(_)
sortByScore(list) ==
  IF list = <<>> THEN <<>>
  ELSE insertByScore(sortByScore(SubSeq(list, 1, Len(list) - 1)), list[Len(list)])

\* a slice that keeps every source
sliceAll(list) == list

\* filteredSources.slice(0, 10)
sliceTop(list) == SubSeq(list, 1, IF Len(list) < topSources THEN Len(list) ELSE topSources)

\* Discovery.findDataSources, from the sources its strategies have gathered
findDataSources(allSources) == sliceTop(sortByScore(filterSources(scoreSources(allSources))))

(***************************************************************************)
(* Bounds and inputs of the harvest run                                    *)
(***************************************************************************)

MaxRuns == 2        \* runs started on one DataHarvester (scheduled ticks)
MaxSources == 2     \* sources handed to one run
MaxProducts == 2    \* records one scrape returns

Product(name, part, industry, description, benefits) ==
  [ product_name |-> S(name), plant_part |-> S(part), industry |-> S(industry),
    description |-> S(description), source_url |-> <<>>, benefits |-> benefits,
    keywords |-> <<>> ]

\* records a scrape may return; source_url is filled in by the extractor
HempOil      == Product("Hemp Oil", "seed", "Food", "made by Acme.", "absent")
DashNumber   == Product("- 123", "fiber", "other", "hemp from ACME.", "array")
TooShort     == Product("AB", "seed", "Food", "hemp", "absent")
BadBenefits  == Product("Hemp Tea", "leaf", "Food", "hemp tea", "string")

\* parseCSVLine trims every cell and builds benefits itself; parseJSONItem
\* copies the item's values as they are
CsvRecords  == {HempOil, TooShort}
JsonRecords == {DashNumber, BadBenefits}

SeqsUpTo(set, n) == UNION {[1..k -> set] : k \in 0..n}

\* a source as a discovery strategy builds it: score 0, license <<>> when the
\* strategy gives none
Source(url, type, license) ==
  [url |-> S(url), type |-> type, score |-> 0, license |-> S(license)]

CsvSource  == Source("file://a.csv", "csv", "Sample Data")
JsonSource == Source("http://b.json", "json", "")
DataSources == {CsvSource, JsonSource}

\* what the extractor of a source type can yield for some document
Extractable(type) ==
  IF type = "csv" THEN SeqsUpTo(CsvRecords, MaxProducts)
  ELSE IF type = "json" THEN SeqsUpTo(JsonRecords, MaxProducts)
  ELSE {<<>>}

\* what the strategies of findDataSources can gather
SourceLists == SeqsUpTo(DataSources, MaxSources)

\* the records the extractors can hand to process(), source_url filled in
Harvestable ==
  {[r EXCEPT !.source_url = source.url] :
     r \in CsvRecords \cup JsonRecords, source \in DataSources}

\* cleanProduct on the records process() gets as far as cleaning
cleanTable ==
  [p \in {h \in Harvestable : isValidProduct(h) /\ ~cleanProductThrows(h)} |->
     cleanProduct(p)]

\* this.cleanProduct(product) in process()
cleaned(product) ==
  IF product \in DOMAIN cleanTable THEN cleanTable[product]
  ELSE cleanProduct(product)

\* the records process() can return in unique
Storable == {enrichProduct(cleanTable[p]) : p \in DOMAIN cleanTable}

\* companiesOf on the records process() can return
companiesTable == [p \in Storable |-> companiesOf(p)]

\* the companies extractCompanies finds in one product
companiesFor(product) ==
  IF product \in DOMAIN companiesTable THEN companiesTable[product]
  ELSE companiesOf(product)

\* the first loop of extractCompanies
RECURSIVE allCompanies(_)
allCompanies(list) ==
  IF list = <<>> THEN <<>> ELSE companiesFor(Head(list)) \o allCompanies(Tail(list))

\* the Map keyed by lower-cased name: the first company of each key, in
\* insertion order
RECURSIVE uniqueFrom(_, _)
uniqueFrom(companies, i) ==
  IF i > Len(companies) THEN <<>>
  ELSE IF \A j \in 1..(i - 1) :
            toLowerCase(companies[j].name) # toLowerCase(companies[i].name)
       THEN <<companies[i]>> \o uniqueFrom(companies, i + 1)
       ELSE uniqueFrom(companies, i + 1)

extractCompanies(list) == uniqueFrom(allCompanies(list), 1)

batchSize == 500

\* config.scraping.maxConcurrentRequests (MAX_CONCURRENT_REQUESTS || '2')
maxConcurrentRequests == 2

MaxActiveRuns == 3    \* ticks of the cron job whose runs are followed
RequestsPerRun == 2   \* HTTP requests one run issues at most

\* a run of the cron job: not yet ticked, running or over; sent counts the
\* axios.get calls it has made, inFlight says one of them is unanswered
IdleRun == [state |-> "idle", sent |-> 0, inFlight |-> FALSE]

NoRequests == [r \in 1..MaxActiveRuns |-> IdleRun]

(***************************************************************************)
(* State                                                                   *)
(***************************************************************************)
VARIABLES
  env,          \* process.env: which of the two Supabase variables are set
  requests,     \* per scheduled run: how far it is with its HTTP requests
  data,         \* scrapeCSV: the text of the file being parsed
  save,         \* saveProducts: its argument, its locals and its upserts
  runs,         \* overlapping runs: the locals of process() in each of them
  candidates,   \* allSources of findDataSources: what its strategies gathered
                \* in the current run
  runNo,        \* how many runs have been started on the harvester
  seenHashes,   \* DataProcessor.seenHashes of the harvester's one processor
  pc,           \* the await point the current run is suspended at
  sources,      \* the sources of the for loop
  srcIdx,       \* position of the for loop over sources
  products,     \* scrapeResult.products of the current source
  scrapeErrors, \* scrapeResult.errors of the current source
  prodIdx,      \* position of process()'s loop over products
  unique,       \* process()'s local unique
  duplicates,   \* process()'s local duplicates
  result,       \* the HarvestRunResult being accumulated
  runRecord,    \* the row of the runs table created by this run, or NoRun
  history       \* what has happened in this run, for stating the properties

vars == << env, requests, data, save, runs, candidates, runNo, seenHashes, pc, sources, srcIdx, products, scrapeErrors,
           prodIdx, unique, duplicates, result, runRecord, history >>

NoRun == [status |-> "none"]

\* saveProducts has not been called
NoSave == [pc |-> "idle"]

\* no run overlaps another
NoRuns == <<>>

EmptyResult ==
  [ products_found |-> 0, products_saved |-> 0, companies_saved |-> 0,
    duplicates_skipped |-> 0, errors |-> <<>> ]

EmptyHistory ==
  [ startedWith |-> {},      \* seenHashes when the run began
    visited |-> {},          \* source positions handed to scraper.scrape
    fetchFailed |-> {},      \* source positions whose fetch or parse failed
    paced |-> {},            \* source positions whose extractor has slept
    threw |-> {},            \* source positions where process() threw
    saveErrors |-> 0,        \* errors returned in the SaveResults of the run
    checked |-> <<>>,        \* the last record validated, with the answer
    emitted |-> <<>>,        \* hashes of the records process() has returned
    companies |-> <<>>,      \* names of the companies handed to saveCompanies
    updateCalls |-> 0,       \* updateRun calls issued
    updateFailed |-> FALSE ] \* an updateRun call was rejected

\* the locals of a run that has not got anywhere yet
FreshRun ==
  /\ sources = <<>>
  /\ srcIdx = 1
  /\ products = <<>>
  /\ scrapeErrors = <<>>
  /\ prodIdx = 1
  /\ unique = <<>>
  /\ duplicates = 0
  /\ result = EmptyResult
  /\ runRecord = NoRun
  /\ history = EmptyHistory

\* SUPABASE_URL and SUPABASE_SERVICE_ROLE_KEY as main tests them: set and not
\* empty, or not
Environments == [SUPABASE_URL : BOOLEAN, SUPABASE_SERVICE_ROLE_KEY : BOOLEAN]

\* a main that goes on whatever the environment holds
credentialsNotTested(e) == TRUE

\* main: process.env.SUPABASE_URL && process.env.SUPABASE_SERVICE_ROLE_KEY
hasCredentials(e) == e.SUPABASE_URL /\ e.SUPABASE_SERVICE_ROLE_KEY

Init ==
  /\ env \in Environments
  /\ requests = NoRequests
  /\ data = <<>>
  /\ save = NoSave
  /\ runs = NoRuns
  /\ candidates = <<>>
  /\ runNo = 0
  /\ seenHashes = {}
  /\ pc = "idle"
  /\ FreshRun

(***************************************************************************)
(* DataHarvester.runOnce, one action per await point.  Runs follow one     *)
(* another: a scheduled tick is taken when the previous run has returned   *)
(* or thrown.                                                              *)
(***************************************************************************)

Finished == pc \in {"returned", "threw"}

\* index.ts main, or the CronJob tick of runSchedule, calls runOnce.  In mode
\* once the process makes the first run only; in mode schedule every tick
\* calls runOnce on the same harvester, hence on the same DataProcessor, and
\* the tick's try/catch lets the next tick come after a run that threw.
StartRun ==
  /\ \/ pc = "idle" /\ hasCredentials(env)
     \/ Finished /\ runNo < MaxRuns
  /\ runNo' = runNo + 1
  /\ pc' = "initialize"
  /\ candidates' = <<>>
  /\ sources' = <<>>
  /\ srcIdx' = 1
  /\ products' = <<>>
  /\ scrapeErrors' = <<>>
  /\ prodIdx' = 1
  /\ unique' = <<>>
  /\ duplicates' = 0
  /\ result' = EmptyResult
  /\ runRecord' = NoRun
  /\ history' = [EmptyHistory EXCEPT !.startedWith = seenHashes]
  /\ UNCHANGED << env, requests, data, save, runs, seenHashes >>

\* main: a Supabase variable is missing; the Error is caught at the end of
\* main, which calls process.exit(1)
MissingCredentials ==
  /\ pc = "idle"
  /\ ~hasCredentials(env)
  /\ pc' = "exit1"
  /\ UNCHANGED << env, requests, data, save, runs, candidates, runNo, seenHashes, sources, srcIdx, products,
                  scrapeErrors, prodIdx, unique, duplicates, result,
                  runRecord, history >>

\* DataHarvester.initialize: verifyConnection and ensureSchema
Initialize ==
  /\ pc = "initialize"
  /\ \E connected \in BOOLEAN :
       pc' = IF connected THEN "createRun" ELSE "threw"
  /\ UNCHANGED << env, requests, data, save, runs, candidates, runNo, seenHashes, sources, srcIdx, products,
                  scrapeErrors, prodIdx, unique, duplicates, result, runRecord,
                  history >>

\* DatabaseService.createRun
CreateRun ==
  /\ pc = "createRun"
  /\ \E ok \in BOOLEAN :
       IF ok
       THEN /\ runRecord' = [ status |-> "running", products_found |-> 0,
                              products_saved |-> 0, companies_saved |-> 0,
                              error_message |-> <<>> ]
            /\ pc' = "discover"
       ELSE /\ pc' = "threw"
            /\ UNCHANGED runRecord
  /\ UNCHANGED << env, requests, data, save, runs, candidates, runNo, seenHashes, sources, srcIdx, products,
                  scrapeErrors, prodIdx, unique, duplicates, result, history >>

\* a loop that takes an empty list of sources for a failure of the run
LoopAtNeedsSource(list, i) ==
  IF i <= Len(list) THEN "scrape"
  ELSE IF list = <<>> THEN "threw" ELSE "updateRun"

\* where the for loop over sources goes next
LoopAt(list, i) == IF i <= Len(list) THEN "scrape" ELSE "updateRun"

\* findDataSources, the loop over its strategies: each pushes the sources it
\* finds to allSources, and one that throws is logged and skipped
GatherSources ==
  /\ pc = "discover"
  /\ candidates' \in SourceLists
  /\ pc' = "sources"
  /\ UNCHANGED << env, requests, data, save, runs, runNo, seenHashes, sources, srcIdx, products,
                  scrapeErrors, prodIdx, unique, duplicates, result,
                  runRecord, history >>

\* findDataSources scores, filters, sorts and slices what was gathered and
\* returns; runOnce initialises result and enters the for loop.
FindSources ==
  /\ pc = "sources"
  /\ \E list \in {findDataSources(candidates)} :
       /\ sources' = list
       /\ pc' = LoopAt(list, 1)
  /\ srcIdx' = 1
  /\ result' = EmptyResult
  /\ UNCHANGED << env, requests, data, save, runs, candidates, runNo, seenHashes, products, scrapeErrors, prodIdx,
                  unique, duplicates, runRecord, history >>

\* Scraper.scrape: the extractor's records, or on any failure of the fetch
\* or the parse no records and an entry in ScrapeResult.errors; then
\* result.products_found += ..., and process() is entered
\* the extractor reaches await sleep(config.scraping.rateLimitDelayMs) before
\* it returns: scrapeHTML, scrapeCSV past its early return, scrapeJSON
sleeps(type, noDataRows) == type \in {"html", "csv", "json"} /\ ~noDataRows

Scrape ==
  /\ pc = "scrape"
  /\ LET source == sources[srcIdx] IN
     \E failed \in BOOLEAN :
     \E noDataRows \in (IF source.type = "csv" /\ ~failed THEN BOOLEAN ELSE {FALSE}) :
     \E found \in (IF failed \/ noDataRows THEN {<<>>} ELSE Extractable(source.type)) :
       /\ products' = [i \in DOMAIN found |-> [found[i] EXCEPT !.source_url = source.url]]
       /\ scrapeErrors' = IF failed THEN <<"Scraping failed">> ELSE <<>>
       /\ result' = [result EXCEPT !.products_found = @ + Len(found)]
       /\ history' = [history EXCEPT
            !.visited = @ \cup {srcIdx},
            !.fetchFailed = IF failed THEN @ \cup {srcIdx} ELSE @,
            !.paced = IF ~failed /\ sleeps(source.type, noDataRows)
                      THEN @ \cup {srcIdx} ELSE @,
            !.checked = <<>>]
  /\ prodIdx' = 1
  /\ unique' = <<>>
  /\ duplicates' = 0
  /\ pc' = "process"
  /\ UNCHANGED << env, requests, data, save, runs, candidates, runNo, seenHashes, sources, srcIdx, runRecord >>

\* the end of one pass of the for loop over sources: its block-scoped
\* locals are gone
NextSource ==
  /\ srcIdx' = srcIdx + 1
  /\ pc' = LoopAt(sources, srcIdx + 1)
  /\ products' = <<>>
  /\ scrapeErrors' = <<>>
  /\ prodIdx' = 1
  /\ unique' = <<>>
  /\ duplicates' = 0

\* a for loop without its try/catch: the error reaches the outer catch
RethrowSourceError(error) ==
  /\ pc' = "catch"
  /\ UNCHANGED << result, srcIdx, products, scrapeErrors, prodIdx, unique,
                  duplicates >>

\* the catch block of the for loop: the error is recorded, next source
CatchSourceError(error) ==
  /\ result' = [result EXCEPT !.errors =
       Append(@, [source |-> sources[srcIdx].url, error |-> error])]
  /\ NextSource

\* a loop that drops the duplicate without counting it
countDuplicateStuck(n) == n

\* a loop that counts a duplicate twice
countDuplicateTwice(n) == n + 2

\* duplicates++
countDuplicate(n) == n + 1

\* the record handed to isValidProduct and what it returned
Checked(product) == << [product |-> product, valid |-> isValidProduct(product)] >>

\* one iteration of the for loop of DataProcessor.process
ProcessRecord ==
  /\ pc = "process"
  /\ prodIdx <= Len(products)
  /\ LET product == products[prodIdx] IN
     IF ~isValidProduct(product)
     THEN /\ prodIdx' = prodIdx + 1
          /\ history' = [history EXCEPT !.checked = Checked(product)]
          /\ UNCHANGED << seenHashes, unique, duplicates, result, srcIdx, pc,
                          products, scrapeErrors >>
     ELSE IF cleanProductThrows(product)
     THEN /\ CatchSourceError("TypeError")
          /\ history' = [history EXCEPT !.checked = Checked(product),
                                        !.threw = @ \cup {srcIdx}]
          /\ UNCHANGED seenHashes
     ELSE LET clean == cleaned(product)
              hash == generateHash(clean)
          IN  /\ prodIdx' = prodIdx + 1
              /\ history' = [history EXCEPT !.checked = Checked(product)]
              /\ IF ~hasHash(seenHashes, hash)
                 THEN /\ seenHashes' = addHash(seenHashes, hash)
                      /\ unique' = Append(unique, enrichProduct(clean))
                      /\ UNCHANGED duplicates
                 ELSE /\ duplicates' = countDuplicate(duplicates)
                      /\ UNCHANGED << seenHashes, unique >>
              /\ UNCHANGED << result, srcIdx, pc, products, scrapeErrors >>
  /\ UNCHANGED << env, requests, data, save, runs, candidates, runNo, sources, runRecord >>

(***************************************************************************)
(* DatabaseService.saveProducts / saveCompanies                            *)
(***************************************************************************)

NumBatches(list) == (Len(list) + batchSize - 1) \div batchSize

\* products.slice(i, i + batchSize) of the k-th pass of the loop
Batch(list, k) ==
  SubSeq(list, (k - 1) * batchSize + 1,
         IF k * batchSize < Len(list) THEN k * batchSize ELSE Len(list))

\* what one upsert can do: return an error, throw, or return the inserted rows
UpsertOutcomes(batch) ==
  {[kind |-> "error", rows |-> 0], [kind |-> "throw", rows |-> 0]}
    \cup {[kind |-> "data", rows |-> n] : n \in 0..Len(batch)}

RECURSIVE SumRows(_, _)
SumRows(outcomes, k) ==
  IF k = 0 THEN 0
  ELSE SumRows(outcomes, k - 1)
         + (IF outcomes[k].kind = "data" THEN outcomes[k].rows ELSE 0)

RECURSIVE BatchErrors(_, _)
BatchErrors(outcomes, k) ==
  IF k = 0 THEN <<>>
  ELSE BatchErrors(outcomes, k - 1)
         \o (IF outcomes[k].kind = "error" THEN <<"Batch insert error">>
             ELSE IF outcomes[k].kind = "throw" THEN <<"Batch processing error">>
             ELSE <<>>)

\* the SaveResult of saveProducts(list) when the k-th upsert does outcomes[k]
saveProducts(list, outcomes) ==
  [ count  |-> SumRows(outcomes, NumBatches(list)),
    errors |-> BatchErrors(outcomes, NumBatches(list)) ]

\* the SaveResult of saveCompanies(list): one upsert when list is not empty
saveCompanies(list, outcome) ==
  IF list = <<>> THEN [count |-> 0, errors |-> <<>>]
  ELSE IF outcome.kind = "error"
       THEN [count |-> 0, errors |-> <<"Company insert error">>]
  ELSE IF outcome.kind = "throw"
       THEN [count |-> 0, errors |-> <<"Company processing error">>]
  ELSE [count |-> outcome.rows, errors |-> <<>>]

\* process() returns {unique, duplicates}; saveProducts(processed.unique);
\* the two counters of result are advanced
SaveProducts ==
  /\ pc = "process"
  /\ prodIdx > Len(products)
  /\ \E outcomes \in [1..NumBatches(unique) -> UpsertOutcomes(unique)] :
       /\ \A k \in DOMAIN outcomes : outcomes[k] \in UpsertOutcomes(Batch(unique, k))
       /\ LET saved == saveProducts(unique, outcomes) IN
          /\ result' = [result EXCEPT
               !.products_saved = @ + saved.count,
               !.duplicates_skipped = @ + duplicates]
          /\ history' = [history EXCEPT
               !.checked = <<>>,
               !.emitted = @ \o [i \in DOMAIN unique |-> generateHash(unique[i])],
               !.saveErrors = @ + Len(saved.errors)]
  /\ pc' = "companies"
  /\ UNCHANGED << env, requests, data, save, runs, candidates, runNo, seenHashes, sources, srcIdx, products,
                  scrapeErrors, prodIdx, unique, duplicates, runRecord >>

\* extractCompanies(processed.unique); saveCompanies(companies); the loop
\* goes to the next source
SaveCompanies ==
  /\ pc = "companies"
  /\ \E companies \in {extractCompanies(unique)} :
     \E outcome \in UpsertOutcomes(companies) :
       /\ companies = <<>> => outcome = [kind |-> "data", rows |-> 0]
       /\ LET savedCompanies == saveCompanies(companies, outcome) IN
          /\ result' = [result EXCEPT !.companies_saved = @ + savedCompanies.count]
          /\ history' = [history EXCEPT
               !.saveErrors = @ + Len(savedCompanies.errors),
               !.companies = @ \o [i \in DOMAIN companies |-> companies[i].name]]
  /\ NextSource
  /\ UNCHANGED << env, requests, data, save, runs, candidates, runNo, seenHashes, sources, runRecord >>

(***************************************************************************)
(* The end of the run: DatabaseService.updateRun                           *)
(***************************************************************************)

\* updateRun(runId, {status: 'completed', ...}); return result
UpdateRun ==
  /\ pc = "updateRun"
  /\ \E ok \in BOOLEAN :
       IF ok
       THEN /\ runRecord' = [ status |-> "completed",
                              products_found |-> result.products_found,
                              products_saved |-> result.products_saved,
                              companies_saved |-> result.companies_saved,
                              error_message |-> result.errors ]
            /\ pc' = "returned"
            /\ history' = [history EXCEPT !.updateCalls = @ + 1]
       ELSE /\ pc' = "catch"
            /\ history' = [history EXCEPT !.updateCalls = @ + 1,
                                          !.updateFailed = TRUE]
            /\ UNCHANGED runRecord
  /\ UNCHANGED << env, requests, data, save, runs, candidates, runNo, seenHashes, sources, srcIdx, products,
                  scrapeErrors, prodIdx, unique, duplicates, result >>

\* the outer catch: updateRun(runId, {status: 'failed', ...}); throw error
UpdateRunFailed ==
  /\ pc = "catch"
  /\ \E ok \in BOOLEAN :
       runRecord' = IF ok THEN [runRecord EXCEPT !.status = "failed",
                                                 !.error_message = <<"updateRun error">>]
                    ELSE runRecord
  /\ pc' = "threw"
  /\ history' = [history EXCEPT !.updateCalls = @ + 1]
  /\ UNCHANGED << env, requests, data, save, runs, candidates, runNo, seenHashes, sources, srcIdx, products,
                  scrapeErrors, prodIdx, unique, duplicates, result >>

Next ==
  \/ MissingCredentials
  \/ StartRun
  \/ Initialize
  \/ CreateRun
  \/ GatherSources
  \/ FindSources
  \/ Scrape
  \/ ProcessRecord
  \/ SaveProducts
  \/ SaveCompanies
  \/ UpdateRun
  \/ UpdateRunFailed

Spec == Init /\ [][Next]_vars

(***************************************************************************)
(* DataProcessor.process applied to two arbitrary records: the run is      *)
(* taken up where a JSON source has just been scraped and has yielded the  *)
(* two records, drawn from the field values below.                         *)
(***************************************************************************)

FnNames ==
  { S("12345"), S("AB"), S("CBD"), S("Hemp"), S("Hemp Seed Oil"),
    S("Cannabis Tea"), S("Rope"), S("Hemp|Oil") }
FnDescriptions ==
  { <<>>, S("  "), S("hemp seeds for food"), S("hemp seeds for food."),
    S("Used in cooking and cosmetics") }
FnPlantParts == { S("42"), S("seed"), S("SEEDS"), S("banana"), <<>>, S("oi") }
FnIndustries == { <<>>, S("Other"), S("other"), S("7"), S("Food & Nutrition") }
FnUrls == { S("http://x.org/a.json"), S("https://gist.github.com/a") }

FnFirst ==
  { [ product_name |-> n, plant_part |-> p, industry |-> i, description |-> d,
      source_url |-> <<>>, benefits |-> "absent", keywords |-> <<>> ] :
      n \in FnNames, p \in FnPlantParts, i \in FnIndustries, d \in FnDescriptions }

\* a description of more words than extractKeywords keeps, in a record that
\* parseJSONItem gave the item's own keywords (item.keywords || item.tags)
ManyWords ==
  [ Product("Hemp Hurd", "stem", "Construction",
            "from the stem: rope yarn felt mats bags sail nets cord wick pulp "
              \o "card fuel feed meal milk soap balm tofu Rope", "absent")
      EXCEPT !.keywords = << S("the"), S("vegan"), S("Hurd"), S("hurd") >> ]

FnSecond ==
  { Product(" hemp seed oil ", "SEED ", " food & nutrition",
            "hemp seeds for food.", "absent"),
    Product("HEMP SEED OIL", "Seed", "FOOD & NUTRITION",
            "hemp seeds for food.", "array"),
    Product("Hemp Seed Oil", "seed", "Food & Nutrition",
            "Used in cooking and cosmetics", "absent"),
    Product("HempSeedOil", "seed", "Food & Nutrition",
            "hemp seeds for food.", "absent"),
    Product("Hemp Seed Oils", "seed", "Food & Nutrition",
            "hemp seeds for food.", "absent"),
    Product("Hemp", "oil|seed", "Food & Nutrition",
            "hemp seeds for food.", "absent"),
    Product("\tcbd", "Seeds", "OTHER", "hemp seeds for food.", "absent"),
    Product("Hemp Seed Oil", "seed", "Food & Nutrition",
            "hemp seeds for food.", "string"),
    ManyWords }

InitFn ==
  /\ env = [SUPABASE_URL |-> TRUE, SUPABASE_SERVICE_ROLE_KEY |-> TRUE]
  /\ requests = NoRequests
  /\ data = <<>>
  /\ save = NoSave
  /\ runs = NoRuns
  /\ candidates = <<>>
  /\ runNo = 1
  /\ seenHashes = {}
  /\ pc = "process"
  /\ \E u \in FnUrls, a \in FnFirst, b \in FnSecond :
       /\ sources = << [url |-> u, type |-> "json"] >>
       /\ products = << [a EXCEPT !.source_url = u], [b EXCEPT !.source_url = u] >>
  /\ srcIdx = 1
  /\ scrapeErrors = <<>>
  /\ prodIdx = 1
  /\ unique = <<>>
  /\ duplicates = 0
  /\ result = [EmptyResult EXCEPT !.products_found = 2]
  /\ runRecord = [ status |-> "running", products_found |-> 0,
                   products_saved |-> 0, companies_saved |-> 0,
                   error_message |-> <<>> ]
  /\ history = [EmptyHistory EXCEPT !.visited = {1}, !.paced = {1}]

NextFn == ProcessRecord

SpecFn == InitFn /\ [][NextFn]_vars

(***************************************************************************)
(* Discovery.findDataSources applied to arbitrary candidates: the run is   *)
(* taken up where the strategies have gathered allSources.                 *)
(***************************************************************************)

MaxCandidates == 11   \* sources the strategies gather for one discovery

FnTypes == {"csv", "json", "html", "pdf"}
FnLicenses == { <<>>, S("MIT"), S("Sample Data"), S("CC BY"), S("Public Domain") }
FnSourceUrls ==
  { S("http://c.com/hemp"), S("https://thehia.org/hemp"),
    S("https://www.usda.gov/hemp"), S("https://data.europa.eu/hemp") }

\* every combination of type, license and URL bonus
FnSources ==
  { [url |-> u, type |-> t, score |-> 0, license |-> l] :
      u \in FnSourceUrls, t \in FnTypes, l \in FnLicenses }

\* a page that scores 0.6 and a file that scores 1
ThresholdSource == Source("https://thehia.org/hemp", "html", "")
TopSource == Source("https://www.usda.gov/hemp.csv", "csv", "Public Domain")

\* short lists of any sources, and lists of up to MaxCandidates sources of
\* the two kinds above
FnCandidateLists ==
  SeqsUpTo(FnSources, 2) \cup SeqsUpTo({ThresholdSource, TopSource}, MaxCandidates)

InitScore ==
  /\ env = [SUPABASE_URL |-> TRUE, SUPABASE_SERVICE_ROLE_KEY |-> TRUE]
  /\ requests = NoRequests
  /\ data = <<>>
  /\ save = NoSave
  /\ runs = NoRuns
  /\ candidates \in FnCandidateLists
  /\ runNo = 1
  /\ seenHashes = {}
  /\ pc = "sources"
  /\ sources = <<>>
  /\ srcIdx = 1
  /\ products = <<>>
  /\ scrapeErrors = <<>>
  /\ prodIdx = 1
  /\ unique = <<>>
  /\ duplicates = 0
  /\ result = EmptyResult
  /\ runRecord = [ status |-> "running", products_found |-> 0,
                   products_saved |-> 0, companies_saved |-> 0,
                   error_message |-> <<>> ]
  /\ history = EmptyHistory

NextScore == FindSources

SpecScore == InitScore /\ [][NextScore]_vars

(***************************************************************************)
(* Scheduled runs and their HTTP requests.  runSchedule starts a CronJob   *)
(* whose onTick calls runOnce; a tick does not wait for the run of an      *)
(* earlier tick.  Every request of a run is an axios.get that the run      *)
(* awaits: Discovery.searchGitHub, Scraper.scrapeHTML, scrapeCSV and       *)
(* scrapeJSON call axios.get themselves.  Scraper.limit, the               *)
(* pLimit(maxConcurrentRequests) of the class, is never called, so its     *)
(* queue stays empty and no request passes through it.                     *)
(***************************************************************************)

\* what the steps below leave alone: the data of the runs
harvest == << env, data, save, runs, candidates, runNo, seenHashes, pc, sources, srcIdx, products,
             scrapeErrors, prodIdx, unique, duplicates, result, runRecord,
             history >>

\* the requests that wait for their response
InFlight == {r \in DOMAIN requests : requests[r].inFlight}

\* the cron job fires: onTick calls runOnce
Tick(r) ==
  /\ requests[r].state = "idle"
  /\ \A q \in 1..(r - 1) : requests[q].state # "idle"
  /\ requests' = [requests EXCEPT ![r].state = "running"]
  /\ UNCHANGED harvest

\* the run calls axios.get and awaits the response
SendRequest(r) ==
  /\ requests[r].state = "running"
  /\ ~requests[r].inFlight
  /\ requests[r].sent < RequestsPerRun
  /\ requests' = [requests EXCEPT ![r].sent = @ + 1, ![r].inFlight = TRUE]
  /\ UNCHANGED harvest

\* the response, an error or the timeout arrives: the await resumes
ReceiveResponse(r) ==
  /\ requests[r].inFlight
  /\ requests' = [requests EXCEPT ![r].inFlight = FALSE]
  /\ UNCHANGED harvest

\* runOnce returns or throws into the try/catch of onTick
FinishRun(r) ==
  /\ requests[r].state = "running"
  /\ ~requests[r].inFlight
  /\ requests' = [requests EXCEPT ![r].state = "finished"]
  /\ UNCHANGED harvest

InitRequests ==
  /\ env = [SUPABASE_URL |-> TRUE, SUPABASE_SERVICE_ROLE_KEY |-> TRUE]
  /\ requests = NoRequests
  /\ data = <<>>
  /\ save = NoSave
  /\ runs = NoRuns
  /\ candidates = <<>>
  /\ runNo = 0
  /\ seenHashes = {}
  /\ pc = "scheduled"
  /\ FreshRun

NextRequests ==
  \E r \in 1..MaxActiveRuns :
    \/ Tick(r)
    \/ SendRequest(r)
    \/ ReceiveResponse(r)
    \/ FinishRun(r)

SpecRequests == InitRequests /\ [][NextRequests]_vars

(***************************************************************************)
(* DataHarvester.runTrigger: the run over the URLs given on the command    *)
(* line.  It maps every URL to a source of score 1.0 and goes through the  *)
(* same loop and the same updateRun as runOnce.  SourceValidator is not    *)
(* referenced by DataHarvester, Discovery or Scraper: no path of runOnce   *)
(* or runTrigger calls validateSource.                                     *)
(***************************************************************************)
MaxUrls == 2   \* URLs given to one trigger run

\* SourceValidator.blacklistedDomains
blacklistedDomains == { S("gist.githubusercontent.com/petroniocandido") }

\* SourceValidator.isBlacklisted
isBlacklisted(url) == \E domain \in blacklistedDomains : includes(url, domain)

\* String.prototype.endsWith
endsWith(s, suffix) ==
  Len(suffix) <= Len(s) /\ SubSeq(s, Len(s) - Len(suffix) + 1, Len(s)) = suffix

\* DataHarvester.detectSourceType
detectSourceType(url) ==
  LET lower == toLowerCase(url) IN
  IF endsWith(lower, S(".csv")) THEN "csv"
  ELSE IF endsWith(lower, S(".json")) THEN "json"
  ELSE IF endsWith(lower, S(".pdf")) THEN "pdf"
  ELSE "html"

\* the URLs of the --urls option
TriggerUrls ==
  { S("file://a.csv"), S("https://gist.githubusercontent.com/petroniocandido/hemp.csv"),
    S("https://c.com/hemp") }

\* urls.map(url => ({url, type: this.detectSourceType(url), score: 1.0}))
triggerSources(urls) ==
  [i \in DOMAIN urls |-> [url |-> urls[i], type |-> detectSourceType(urls[i]), score |-> 100]]

\* runTrigger after initialize and createRun, in front of its for loop
InitTrigger ==
  /\ env = [SUPABASE_URL |-> TRUE, SUPABASE_SERVICE_ROLE_KEY |-> TRUE]
  /\ requests = NoRequests
  /\ data = <<>>
  /\ save = NoSave
  /\ runs = NoRuns
  /\ candidates = <<>>
  /\ runNo = 1
  /\ seenHashes = {}
  /\ \E urls \in SeqsUpTo(TriggerUrls, MaxUrls) :
       /\ sources = triggerSources(urls)
       /\ pc = LoopAt(sources, 1)
  /\ srcIdx = 1
  /\ products = <<>>
  /\ scrapeErrors = <<>>
  /\ prodIdx = 1
  /\ unique = <<>>
  /\ duplicates = 0
  /\ result = EmptyResult
  /\ runRecord = [ status |-> "running", products_found |-> 0,
                   products_saved |-> 0, companies_saved |-> 0,
                   error_message |-> <<>> ]
  /\ history = EmptyHistory

NextTrigger ==
  \/ Scrape
  \/ ProcessRecord
  \/ SaveProducts
  \/ SaveCompanies
  \/ UpdateRun
  \/ UpdateRunFailed

SpecTrigger == InitTrigger /\ [][NextTrigger]_vars

(***************************************************************************)
(* Scraper.scrapeCSV on the text of a file: scrape has been called for a   *)
(* csv source and the file has been read.                                  *)
(***************************************************************************)
MaxLineLen == 5   \* characters of a row built from LineChars
MaxRows == 2      \* rows of a file built from CsvRowLines

\* the characters parseCSVLine tells apart: a comma, a quote, white space and
\* any other character
LineChars == {"a", ",", "\"", " "}

\* every row of up to MaxLineLen of these characters
QuoteLines == SeqsUpTo(LineChars, MaxLineLen)

CsvHeaderLines ==
  { S("Product Name,Use Case,Plant Part"),
    S("Use,Part"),
    S("Item Name,Name,Description,Industry,Benefits,Source URL") }

CsvRowLines ==
  { S("Hemp Fiber Rope,Used in textiles,fiber"),
    S("Hemp Seed, \"High in Omega-3, Omega-6\",seed"),
    S(",Used in textiles,fiber"),
    S("Hemp Oil,,made of hemp,Food,\"rich, tasty\",http://d.org"),
    S("  "),
    S("\"He said \"\"hemp\"\"\",x") }

\* lines joined by line feeds
RECURSIVE joinLines(_)
joinLines(lines) ==
  IF lines = <<>> THEN <<>>
  ELSE IF Len(lines) = 1 THEN lines[1]
  ELSE lines[1] \o <<"\n">> \o joinLines(Tail(lines))

\* a field as a CSV writer puts it: in quotes, every quote doubled
RECURSIVE doubleQuotes(_)
doubleQuotes(field) ==
  IF field = <<>> THEN <<>>
  ELSE (IF Head(field) = "\"" THEN <<"\"", "\"">> ELSE <<Head(field)>>)
         \o doubleQuotes(Tail(field))

RECURSIVE writeCSV(_)
writeCSV(fields) ==
  IF fields = <<>> THEN <<>>
  ELSE <<"\"">> \o doubleQuotes(Head(fields)) \o <<"\"">>
         \o (IF Len(fields) = 1 THEN <<>> ELSE <<",">> \o writeCSV(Tail(fields)))

\* rows of one or two fields of up to two characters, as a writer puts them
FieldLists ==
  {<<f>> : f \in SeqsUpTo(LineChars, 2)}
    \cup {<<f, g>> : f \in SeqsUpTo(LineChars, 2), g \in SeqsUpTo(LineChars, 2)}

\* every such row with the fields it was written from
Written == {<<writeCSV(fields), fields>> : fields \in FieldLists}

WrittenLines == {w[1] : w \in Written}

\* the files scrapeCSV is given
CsvFiles ==
  {joinLines(<<header>> \o rows) : header \in CsvHeaderLines, rows \in SeqsUpTo(CsvRowLines, MaxRows)}
    \cup {joinLines(<<S("name"), line>>) : line \in QuoteLines \cup WrittenLines}
    \cup {<<>>}

\* scrapeCSV(source.url) of scrape, the file at hand
ScrapeCSV ==
  /\ pc = "scrape"
  /\ sources[srcIdx].type = "csv"
  /\ \E scraped \in {scrapeCSV(data, sources[srcIdx].url)} :
       /\ products' = scraped.products
       /\ result' = [result EXCEPT !.products_found = @ + Len(scraped.products)]
       /\ history' = [history EXCEPT
            !.visited = @ \cup {srcIdx},
            !.paced = IF scraped.slept THEN @ \cup {srcIdx} ELSE @,
            !.checked = <<>>]
  /\ scrapeErrors' = <<>>
  /\ prodIdx' = 1
  /\ unique' = <<>>
  /\ duplicates' = 0
  /\ pc' = "process"
  /\ UNCHANGED << env, requests, data, save, runs, candidates, runNo, seenHashes, sources, srcIdx,
                  runRecord >>

InitCsv ==
  /\ env = [SUPABASE_URL |-> TRUE, SUPABASE_SERVICE_ROLE_KEY |-> TRUE]
  /\ requests = NoRequests
  /\ data \in CsvFiles
  /\ save = NoSave
  /\ runs = NoRuns
  /\ candidates = <<CsvSource>>
  /\ runNo = 1
  /\ seenHashes = {}
  /\ pc = "scrape"
  /\ sources = findDataSources(<<CsvSource>>)
  /\ srcIdx = 1
  /\ products = <<>>
  /\ scrapeErrors = <<>>
  /\ prodIdx = 1
  /\ unique = <<>>
  /\ duplicates = 0
  /\ result = EmptyResult
  /\ runRecord = [ status |-> "running", products_found |-> 0,
                   products_saved |-> 0, companies_saved |-> 0,
                   error_message |-> <<>> ]
  /\ history = EmptyHistory

NextCsv == ScrapeCSV

SpecCsv == InitCsv /\ [][NextCsv]_vars

(***************************************************************************)
(* DataProcessor.cleanText applied to arbitrary text: process() is given   *)
(* one valid record whose description is drawn from the short strings      *)
(* over a letter, a blank, a control character and a dash.                 *)
(***************************************************************************)

MaxTextLen == 5   \* characters of the description

CleanChars == {"a", " ", "BEL", "-"}

CleanTexts == SeqsUpTo(CleanChars, MaxTextLen)

InitClean ==
  /\ env = [SUPABASE_URL |-> TRUE, SUPABASE_SERVICE_ROLE_KEY |-> TRUE]
  /\ requests = NoRequests
  /\ data = <<>>
  /\ save = NoSave
  /\ runs = NoRuns
  /\ candidates = <<>>
  /\ runNo = 1
  /\ seenHashes = {}
  /\ pc = "process"
  /\ sources = << [url |-> S("http://x.org/a.json"), type |-> "json"] >>
  /\ \E d \in CleanTexts :
       products = << [ Product("Hemp Oil", "seed", "Food", "", "absent")
                         EXCEPT !.description = d,
                                !.source_url = S("http://x.org/a.json") ] >>
  /\ srcIdx = 1
  /\ scrapeErrors = <<>>
  /\ prodIdx = 1
  /\ unique = <<>>
  /\ duplicates = 0
  /\ result = [EmptyResult EXCEPT !.products_found = 1]
  /\ runRecord = [ status |-> "running", products_found |-> 0,
                   products_saved |-> 0, companies_saved |-> 0,
                   error_message |-> <<>> ]
  /\ history = [EmptyHistory EXCEPT !.visited = {1}, !.paced = {1}]

NextClean == ProcessRecord

SpecClean == InitClean /\ [][NextClean]_vars

(***************************************************************************)
(* DatabaseService.saveProducts, one action per await point: the early     *)
(* return for an empty list, one pass of the batch loop per upsert, the    *)
(* return of the SaveResult.  A product is its position in the argument.   *)
(***************************************************************************)

MaxBatches == 2   \* passes of the loop a call needs at most

\* lengths of the argument around the multiples of batchSize
SaveSizes ==
  {k * batchSize + d : k \in 0..(MaxBatches - 1), d \in {0, 1, batchSize - 1}}
    \cup {MaxBatches * batchSize}

\* what one upsert can do: return an error, throw, or return data; data
\* holds the ids of the rows inserted, or is null
SaveOutcomes(batch) ==
  {[kind |-> "error", rows |-> 0], [kind |-> "throw", rows |-> 0]}
    \cup {[kind |-> "data", rows |-> n] : n \in {0, Len(batch) \div 2, Len(batch)}}

\* products.slice(i, i + batchSize)
slice(list, i, end) == SubSeq(list, i + 1, IF end < Len(list) THEN end ELSE Len(list))

\* a loop whose try block encloses the for statement
attemptThenStop(s, outcome) ==
  [s EXCEPT
     !.pc = "loop",
     !.i = IF outcome.kind = "throw" THEN Len(s.products) ELSE @ + batchSize,
     !.count = IF outcome.kind = "data" THEN @ + outcome.rows ELSE @,
     !.errors = IF outcome.kind = "error" THEN Append(@, "Batch insert error")
                ELSE IF outcome.kind = "throw" THEN Append(@, "Batch processing error")
                ELSE @,
     !.upserts = Append(@, [batch |-> slice(s.products, s.i, s.i + batchSize),
                            outcome |-> outcome])]

\* one pass of the loop: the batch is upserted, the answer is added to
\* result.count or to result.errors, and i += batchSize
attempt(s, outcome) ==
  [s EXCEPT
     !.pc = "loop",
     !.i = @ + batchSize,
     !.count = IF outcome.kind = "data" THEN @ + outcome.rows ELSE @,
     !.errors = IF outcome.kind = "error" THEN Append(@, "Batch insert error")
                ELSE IF outcome.kind = "throw" THEN Append(@, "Batch processing error")
                ELSE @,
     !.upserts = Append(@, [batch |-> slice(s.products, s.i, s.i + batchSize),
                            outcome |-> outcome])]

\* if (products.length === 0) return { count: 0, errors: [] }
ReturnEmpty ==
  /\ save.pc = "called"
  /\ Len(save.products) = 0
  /\ save' = [save EXCEPT !.pc = "returned"]
  /\ UNCHANGED << env, requests, data, runs, candidates, runNo, seenHashes, pc,
                  sources, srcIdx, products, scrapeErrors, prodIdx, unique,
                  duplicates, result, runRecord, history >>

\* for (let i = 0; i < products.length; i += batchSize) { ... await upsert }
UpsertBatch ==
  /\ save.pc \in {"called", "loop"}
  /\ Len(save.products) > 0
  /\ save.i < Len(save.products)
  /\ \E outcome \in SaveOutcomes(slice(save.products, save.i, save.i + batchSize)) :
       save' = attempt(save, outcome)
  /\ UNCHANGED << env, requests, data, runs, candidates, runNo, seenHashes, pc,
                  sources, srcIdx, products, scrapeErrors, prodIdx, unique,
                  duplicates, result, runRecord, history >>

\* return result
ReturnSaveResult ==
  /\ save.pc = "loop"
  /\ save.i >= Len(save.products)
  /\ save' = [save EXCEPT !.pc = "returned"]
  /\ UNCHANGED << env, requests, data, runs, candidates, runNo, seenHashes, pc,
                  sources, srcIdx, products, scrapeErrors, prodIdx, unique,
                  duplicates, result, runRecord, history >>

InitSave ==
  /\ env = [SUPABASE_URL |-> TRUE, SUPABASE_SERVICE_ROLE_KEY |-> TRUE]
  /\ requests = NoRequests
  /\ data = <<>>
  /\ \E n \in SaveSizes :
       save = [ pc |-> "called", products |-> [k \in 1..n |-> k], i |-> 0,
                count |-> 0, errors |-> <<>>, upserts |-> <<>> ]
  /\ runs = NoRuns
  /\ candidates = <<>>
  /\ runNo = 1
  /\ seenHashes = {}
  /\ pc = "save"
  /\ sources = <<>>
  /\ srcIdx = 1
  /\ products = <<>>
  /\ scrapeErrors = <<>>
  /\ prodIdx = 1
  /\ unique = <<>>
  /\ duplicates = 0
  /\ result = EmptyResult
  /\ runRecord = NoRun
  /\ history = EmptyHistory

NextSave == ReturnEmpty \/ UpsertBatch \/ ReturnSaveResult

SpecSave == InitSave /\ [][NextSave]_vars

(***************************************************************************)
(* Two runs of runSchedule's cron job in progress at once.  Both call      *)
(* process() on the one DataProcessor of the harvester, so they share      *)
(* seenHashes.  JavaScript runs a call without interruption up to its next *)
(* await; the only await of process() is `await this.enrichProduct`, so a  *)
(* run goes through its records up to the next record with a new hash,     *)
(* is suspended there, and is resumed later.                               *)
(***************************************************************************)

MaxOverlapProducts == 2   \* records the scrape of an overlapping run returns

\* a record with the hash of HempOil, and one with another hash
HempOilShout == Product(" HEMP  OIL", "Seed ", "FOOD", "cold pressed hemp", "absent")

OverlapRecords == {HempOil, HempOilShout, DashNumber}

OverlapLists == SeqsUpTo(OverlapRecords, MaxOverlapProducts)

\* the locals of process() in a run whose scrape has returned list
Scraped(list) ==
  [ pc |-> "scraped", products |-> list, prodIdx |-> 1, unique |-> <<>>,
    duplicates |-> 0, pending |-> <<>> ]

\* an insertion that waits for the await to finish
testThenAwait(run, seen, clean, hash) ==
  [ run |-> [run EXCEPT !.pc = "enrich", !.pending = clean], seen |-> seen ]

\* if (!this.seenHashes.has(hash)) { this.seenHashes.add(hash);
\* const enriched = await ...: the hash is in the set when the run is
\* suspended
testAndAdd(run, seen, clean, hash) ==
  [ run |-> [run EXCEPT !.pc = "enrich", !.pending = clean],
    seen |-> addHash(seen, hash) ]

\* the for loop of process() from run.prodIdx up to its next await, its
\* return or the exception of cleanProduct
RECURSIVE loopFrom(_, _)
loopFrom(run, seen) ==
  IF run.prodIdx > Len(run.products)
  THEN [run |-> [run EXCEPT !.pc = "returned"], seen |-> seen]
  ELSE IF ~isValidProduct(run.products[run.prodIdx])
  THEN loopFrom([run EXCEPT !.prodIdx = @ + 1], seen)
  ELSE IF cleanProductThrows(run.products[run.prodIdx])
  THEN [run |-> [run EXCEPT !.pc = "threw"], seen |-> seen]
  ELSE IF ~hasHash(seen, generateHash(cleanProduct(run.products[run.prodIdx])))
  THEN testAndAdd([run EXCEPT !.prodIdx = @ + 1], seen,
                  cleanProduct(run.products[run.prodIdx]),
                  generateHash(cleanProduct(run.products[run.prodIdx])))
  ELSE loopFrom([run EXCEPT !.prodIdx = @ + 1,
                            !.duplicates = countDuplicate(@)], seen)

\* the run's scrape has returned: runOnce calls process()
EnterProcess ==
  /\ \E r \in DOMAIN runs :
       /\ runs[r].pc = "scraped"
       /\ \E out \in {loopFrom(runs[r], seenHashes)} :
            /\ runs' = [runs EXCEPT ![r] = out.run]
            /\ seenHashes' = out.seen
  /\ UNCHANGED << env, requests, data, save, candidates, runNo, pc, sources,
                  srcIdx, products, scrapeErrors, prodIdx, unique, duplicates,
                  result, runRecord, history >>

\* enrichProduct has been awaited: unique.push(enriched), and the loop goes on
ResumeProcess ==
  /\ \E r \in DOMAIN runs :
       /\ runs[r].pc = "enrich"
       /\ \E out \in {loopFrom([runs[r] EXCEPT
                                  !.unique = Append(@, enrichProduct(runs[r].pending)),
                                  !.pending = <<>>], seenHashes)} :
            /\ runs' = [runs EXCEPT ![r] = out.run]
            /\ seenHashes' = out.seen
  /\ UNCHANGED << env, requests, data, save, candidates, runNo, pc, sources,
                  srcIdx, products, scrapeErrors, prodIdx, unique, duplicates,
                  result, runRecord, history >>

InitOverlap ==
  /\ env = [SUPABASE_URL |-> TRUE, SUPABASE_SERVICE_ROLE_KEY |-> TRUE]
  /\ requests = NoRequests
  /\ data = <<>>
  /\ save = NoSave
  /\ \E first \in OverlapLists, second \in OverlapLists :
       runs = << Scraped(first), Scraped(second) >>
  /\ candidates = <<>>
  /\ runNo = 2
  /\ seenHashes = {}
  /\ pc = "scheduled"
  /\ sources = <<>>
  /\ srcIdx = 1
  /\ products = <<>>
  /\ scrapeErrors = <<>>
  /\ prodIdx = 1
  /\ unique = <<>>
  /\ duplicates = 0
  /\ result = EmptyResult
  /\ runRecord = NoRun
  /\ history = EmptyHistory

NextOverlap == EnterProcess \/ ResumeProcess

SpecOverlap == InitOverlap /\ [][NextOverlap]_vars

(***************************************************************************)
(* Scraper.extractPlantPart and extractIndustry followed by                *)
(* DataProcessor.isValidProduct: scrapeHTML has read one list item, built  *)
(* its record with parseTextToProduct, and process() is called on it.      *)
(***************************************************************************)

\* words that the branches of extractPlantPart look for, and none
PartWords ==
  { S(""), S("seed"), S("fiber"), S("fibre"), S("flower"), S("bud"), S("leaf"),
    S("leaves"), S("root"), S("stem"), S("stalk"), S("oil"), S("whole plant") }

\* words that the branches of extractIndustry look for, and none
IndustryWords ==
  { S(""), S("food"), S("nutrition"), S("textile"), S("fabric"), S("clothing"),
    S("construction"), S("building"), S("automotive"), S("car"), S("cosmetic"),
    S("beauty"), S("pharmaceutical"), S("medicine"), S("paper"), S("pulp"),
    S("plastic"), S("bioplastic"), S("energy"), S("fuel") }

\* the text of a list item
ItemTexts ==
  { S("Hemp: ") \o part \o S(" ") \o industry :
      part \in PartWords, industry \in IndustryWords }

\* Scraper.isHempProduct
isHempProduct(text) ==
  \E keyword \in { S("hemp"), S("fiber"), S("seed"), S("oil"), S("cbd"),
                    S("cannabinoid"), S("industrial") } :
    includes(toLowerCase(text), keyword)

\* the characters of [-:\u2013\u2014]
PartSeparators == {"-", ":", "ENDASH", "EMDASH"}

MinItemName == 3

\* the null parseTextToProduct returns
NullProduct == [null |-> TRUE]

\* Scraper.parseTextToProduct: the name is the text before the first
\* separator, the description the rest with blanks for the separators;
\* null for a name shorter than three characters
parseTextToProduct(text, sourceUrl) ==
  LET seps == {i \in DOMAIN text : text[i] \in PartSeparators}
      first == IF seps = {} THEN Len(text) + 1 ELSE MinOf(seps)
      name == trim(SubSeq(text, 1, first - 1))
      rest == [i \in 1..(Len(text) - first) |->
                 IF text[first + i] \in PartSeparators THEN " " ELSE text[first + i]]
  IN  IF Len(name) < MinItemName THEN NullProduct
      ELSE [ product_name |-> name,
             description  |-> orElse(trim(rest), name),
             plant_part   |-> extractPlantPart(text),
             industry     |-> extractIndustry(text),
             source_url   |-> sourceUrl,
             benefits     |-> "absent",
             keywords     |-> <<>> ]

InitLabel ==
  /\ env = [SUPABASE_URL |-> TRUE, SUPABASE_SERVICE_ROLE_KEY |-> TRUE]
  /\ requests = NoRequests
  /\ data \in {text \in ItemTexts :
                 /\ isHempProduct(text)
                 /\ parseTextToProduct(text, S("http://c.com/hemp")) # NullProduct}
  /\ save = NoSave
  /\ runs = NoRuns
  /\ candidates = <<>>
  /\ runNo = 1
  /\ seenHashes = {}
  /\ pc = "process"
  /\ sources = << [url |-> S("http://c.com/hemp"), type |-> "html"] >>
  /\ products = << parseTextToProduct(data, S("http://c.com/hemp")) >>
  /\ srcIdx = 1
  /\ scrapeErrors = <<>>
  /\ prodIdx = 1
  /\ unique = <<>>
  /\ duplicates = 0
  /\ result = [EmptyResult EXCEPT !.products_found = 1]
  /\ runRecord = [ status |-> "running", products_found |-> 0,
                   products_saved |-> 0, companies_saved |-> 0,
                   error_message |-> <<>> ]
  /\ history = [EmptyHistory EXCEPT !.visited = {1}, !.paced = {1}]

NextLabel == ProcessRecord

SpecLabel == InitLabel /\ [][NextLabel]_vars

(***************************************************************************)
(* Properties                                                              *)
(***************************************************************************)

HashesOf(list) == [i \in DOMAIN list |-> generateHash(list[i])]

\* the hashes of every record process() has put into a unique list in the
\* current run: those already returned and those of the call in progress
RunUnique == history.emitted \o (IF pc = "process" THEN HashesOf(unique) ELSE <<>>)

\* C1: within one run, over all its sources, no two records that process()
\* places in its unique outputs have the same content hash.
C1_UniqueHashesDistinct ==
  \A i, j \in DOMAIN RunUnique : i # j => RunUnique[i] # RunUnique[j]

\* a run that emitted records from two sources and skipped a duplicate
C1_Witness ==
  /\ Len(history.emitted) >= 2
  /\ Cardinality(history.visited) >= 2
  /\ result.duplicates_skipped >= 1

\* C2: when process() returns, unique.length + duplicates is the number of
\* input records that isValidProduct accepts.
C2_UniquePlusDuplicatesIsValid ==
  pc = "companies" =>
    Len(unique) + duplicates =
      Cardinality({i \in DOMAIN products : isValidProduct(products[i])})

\* process() has returned one unique record and counted one duplicate
C2_Witness == pc = "companies" /\ Len(unique) = 1 /\ duplicates = 1

\* C3: every run starts with an empty set of seen hashes.
C3_RunStartsWithNoHashes == runNo >= 1 => history.startedWith = {}

\* the eight rules of the validator, each stated on its own
Rule1(p) == ~isNumeric(p.product_name)
Rule2(p) == ~isNumeric(p.plant_part)
Rule3(p) == Len(p.product_name) >= 3
Rule4(p) == ~(trim(p.description) = <<>> /\ Len(p.product_name) < 5)
Rule5(p) ==
  \/ \E w \in {S("hemp"), S("cannabis"), S("cbd")} :
       includes(toLowerCase(p.product_name), w)
  \/ includes(toLowerCase(p.description), S("hemp"))
Rule6(p) == p.industry # <<>> /\ p.industry # S("Other") /\ ~isNumeric(p.industry)
Rule7(p) ==
  \E k \in DOMAIN validPlantParts :
    \/ includes(toLowerCase(p.plant_part), validPlantParts[k])
    \/ includes(validPlantParts[k], toLowerCase(p.plant_part))
Rule8(p) == includes(p.source_url, S("gist.github")) => Len(p.description) >= 20

AllEightRules(p) ==
  /\ Rule1(p) /\ Rule2(p) /\ Rule3(p) /\ Rule4(p)
  /\ Rule5(p) /\ Rule6(p) /\ Rule7(p) /\ Rule8(p)

\* the record of the specification that the validator must accept
AcceptedExample(p) ==
  /\ p.product_name = S("Hemp Seed Oil")
  /\ p.description = S("Used in cooking and cosmetics")
  /\ p.plant_part = S("seed")
  /\ p.industry = S("Food & Nutrition")
  /\ ~includes(p.source_url, S("gist.github"))

\* the records of the specification that the validator must reject
RejectedExample(p) ==
  \/ p.product_name \in {S("12345"), S("AB")}
  \/ p.plant_part \in {S("42"), S("banana")}
  \/ p.industry = S("Other")

C5_EmittedSatisfyRules ==
  \A i \in DOMAIN unique :
    /\ ~isNumeric(unique[i].product_name)
    /\ Len(unique[i].product_name) >= 3
    /\ unique[i].industry # S("Other")

\* two fields that differ at most in letter case and in leading or trailing
\* white space
SameButCaseAndPadding(x, y) == toLowerCase(trim(x)) = toLowerCase(trim(y))

SameProductButCaseAndPadding(a, b) ==
  /\ SameButCaseAndPadding(a.product_name, b.product_name)
  /\ SameButCaseAndPadding(a.plant_part, b.plant_part)
  /\ SameButCaseAndPadding(a.industry, b.industry)

\* process() has been through both records of the source
BothProcessed == pc = "process" /\ Len(products) = 2 /\ prodIdx = 3

BothValid == isValidProduct(products[1]) /\ isValidProduct(products[2])

\* C6: two valid records whose name, plant part and industry differ only in
\* letter case and outer white space get the same hash, and the one processed
\* second is counted as a duplicate and not emitted.
C6_CaseAndPaddingInsensitive ==
  (BothProcessed /\ BothValid
     /\ SameProductButCaseAndPadding(products[1], products[2])) =>
    /\ generateHash(cleanProduct(products[1])) = generateHash(cleanProduct(products[2]))
    /\ duplicates >= 1
    /\ Len(unique) <= 1

\* two such records that are not the same record have been processed
C6_Witness ==
  /\ BothProcessed /\ BothValid
  /\ SameProductButCaseAndPadding(products[1], products[2])
  /\ products[1].product_name # products[2].product_name
  /\ products[1].plant_part # products[2].plant_part
  /\ products[1].industry # products[2].industry

\* a field as the claim compares it: cleaned, case and white space ignored
Meaning(field) == removeWhiteSpace(toLowerCase(field))

DifferMeaningfully(a, b) ==
  \/ Meaning(a.product_name) # Meaning(b.product_name)
  \/ Meaning(a.plant_part) # Meaning(b.plant_part)
  \/ Meaning(a.industry) # Meaning(b.industry)

\* C7: two valid records that differ, after cleaning and ignoring case, in a
\* character other than white space of some key field have different keys,
\* so neither is discarded as a duplicate of the other.
C7_KeySeparatesFields ==
  (BothProcessed /\ BothValid
     /\ DifferMeaningfully(cleanProduct(products[1]), cleanProduct(products[2]))) =>
    /\ hashKey(cleanProduct(products[1])) # hashKey(cleanProduct(products[2]))
    /\ duplicates = 0

\* C8: a source whose fetch or parse failed has an entry in the run's error
\* list once the loop has passed it.
C8_FetchFailureRecorded ==
  \A k \in history.fetchFailed :
    k < srcIdx =>
      \E e \in DOMAIN result.errors : result.errors[e].source = sources[k].url

UpsertErrors ==
  { "Batch insert error", "Batch processing error", "Company insert error",
    "Company processing error" }

\* the entries of an error list that report a failed upsert
UpsertEntries(errors) == {e \in DOMAIN errors : errors[e].error \in UpsertErrors}

\* C9: after the run, the error list of the summary and the error_message of
\* the run record hold an entry for every failed upsert.
C9_UpsertFailureRecorded ==
  pc = "returned" =>
    /\ Cardinality(UpsertEntries(result.errors)) >= history.saveErrors
    /\ Cardinality(UpsertEntries(runRecord.error_message)) >= history.saveErrors

\* C10: once the run record exists, no scrape failure, exception of process()
\* or failed upsert aborts the run: the loop visits every source, and unless
\* updateRun itself is rejected the run ends 'completed' and returns its
\* summary with the counts.
C10_FailuresDoNotAbortRun ==
  /\ pc \in {"updateRun", "returned", "catch"} => history.visited = DOMAIN sources
  /\ (Finished /\ runRecord # NoRun /\ ~history.updateFailed) =>
       /\ pc = "returned"
       /\ runRecord.status = "completed"
       /\ runRecord.products_found = result.products_found
       /\ runRecord.products_saved = result.products_saved
       /\ runRecord.companies_saved = result.companies_saved
       /\ runRecord.error_message = result.errors

\* a run has returned after a failed fetch, an exception of process() and
\* a failed upsert between them in its two sources
C10_Witness ==
  /\ pc = "returned"
  /\ Len(sources) = 2
  /\ history.threw # {}
  /\ history.fetchFailed # {} \/ history.saveErrors > 0

\* C11: a run that created its run record issues exactly one updateRun call,
\* which sets the status to 'completed' or to 'failed'.
C11_ExactlyOneUpdateRun ==
  (Finished /\ runRecord # NoRun) =>
    /\ history.updateCalls = 1
    /\ runRecord.status \in {"completed", "failed"}

\* C12: when SUPABASE_URL or SUPABASE_SERVICE_ROLE_KEY is missing, nothing is
\* started: no run, no run record, no discovery, no fetch and no upsert; the
\* process is still in main or has left it through process.exit(1).
C12_MissingCredentialsAbort ==
  (~env.SUPABASE_URL \/ ~env.SUPABASE_SERVICE_ROLE_KEY) =>
    /\ pc \in {"idle", "exit1"}
    /\ runNo = 0
    /\ runRecord = NoRun
    /\ sources = <<>>
    /\ history = EmptyHistory
    /\ result = EmptyResult
    /\ seenHashes = {}

\* the process has exited with code 1 for want of the service role key alone
C12_Witness ==
  /\ pc = "exit1"
  /\ env.SUPABASE_URL
  /\ ~env.SUPABASE_SERVICE_ROLE_KEY

\* C13: a run whose discovery yields no source completes: unless updateRun
\* itself is rejected, the run record ends 'completed' and products_found,
\* products_saved, companies_saved and duplicates_skipped are all 0, with an
\* empty error list.
C13_ZeroSourcesCompletes ==
  (Finished /\ runRecord # NoRun /\ sources = <<>> /\ ~history.updateFailed) =>
    /\ pc = "returned"
    /\ runRecord.status = "completed"
    /\ runRecord.products_found = 0
    /\ runRecord.products_saved = 0
    /\ runRecord.companies_saved = 0
    /\ runRecord.error_message = <<>>
    /\ result.products_found = 0
    /\ result.products_saved = 0
    /\ result.companies_saved = 0
    /\ result.duplicates_skipped = 0
    /\ result.errors = <<>>

\* a run without sources has returned
C13_Witness ==
  /\ pc = "returned"
  /\ sources = <<>>
  /\ history.visited = {}
  /\ runRecord.status = "completed"

\* findDataSources has returned to runOnce
Discovered == pc \in {"scrape", "updateRun"}

\* how often x occurs in list
Occurrences(list, x) == Cardinality({i \in DOMAIN list : list[i] = x})

\* the candidates with their scores
ScoredCandidates == scoreSources(candidates)

\* the scored candidate at position k is left out of the returned list
Omitted(scored, k) == Occurrences(sources, scored[k]) < Occurrences(scored, scored[k])

\* C14: the list findDataSources returns (a) has at most 10 elements, (b) holds
\* only sources whose score, bonuses included, is at least minScoreThreshold,
\* (c) is sorted by score, highest first, and (d) leaves out a source scoring
\* at least the threshold only if every returned source scores at least as
\* high.
C14_TopViableSources ==
  Discovered =>
    LET scored == ScoredCandidates IN
    /\ Len(sources) <= 10
    /\ \A i \in DOMAIN sources :
         /\ \E k \in DOMAIN scored : sources[i] = scored[k]
         /\ sources[i].score >= minScoreThreshold
    /\ \A i \in 1..(Len(sources) - 1) : sources[i].score >= sources[i + 1].score
    /\ \A k \in DOMAIN scored :
         (scored[k].score >= minScoreThreshold /\ Omitted(scored, k)) =>
           (sources # <<>> /\ sources[Len(sources)].score >= scored[k].score)

\* eleven candidates reach the threshold, with two different scores among the
\* ten returned and one of them left out
C14_Witness ==
  /\ Discovered
  /\ Len(candidates) = 11
  /\ Len(sources) = 10
  /\ sources[1].score > sources[10].score
  /\ \E k \in DOMAIN candidates : Omitted(ScoredCandidates, k)

C16_ScoreInUnitInterval ==
  LET scored == ScoredCandidates IN
  \A k \in DOMAIN scored : scored[k].score >= 0 /\ scored[k].score <= 100

\* scoreSources has given the highest score, 1.0, to a csv source with an open
\* license and both URL bonuses, and the lowest, 0.44, to a pdf source with
\* neither
C16_Witness ==
  /\ Discovered
  /\ Len(candidates) = 2
  /\ LET scored == ScoredCandidates IN
     /\ scored[1].score = 100
     /\ scored[1].type = "csv"
     /\ isOpenLicense(scored[1].license)
     /\ scored[2].score = 44
     /\ scored[2].type = "pdf"
     /\ scored[2].license = <<>>

C18_CompaniesUniqueInRun ==
  \A i, j \in DOMAIN history.companies :
    i # j => toLowerCase(history.companies[i]) # toLowerCase(history.companies[j])

\* C19: every extractor call for an html, csv or json source that has
\* returned a result to scrape has waited the rate-limit delay before it
\* returned, on every return path.
C19_ExtractorsPaceBeforeReturn ==
  \A k \in history.visited \ history.fetchFailed :
    sources[k].type \in {"html", "csv", "json"} => k \in history.paced

\* C20: at every moment at most maxConcurrentRequests (2) outbound HTTP
\* requests are in flight, also when several runs are active at once.
C20_RequestsCapped ==
  Cardinality(InFlight) <= maxConcurrentRequests

\* C21: a source whose URL matches a blacklisted domain is never handed to
\* the scraper, in any run mode.
C21_BlacklistedNeverScraped ==
  \A k \in history.visited : ~isBlacklisted(sources[k].url)

\* the commas of line from position i on that lie outside quoted sections
RECURSIVE unquotedCommas(_, _, _)
unquotedCommas(line, i, quoted) ==
  IF i > Len(line) THEN 0
  ELSE IF line[i] = "\"" /\ quoted /\ i < Len(line) /\ line[i + 1] = "\""
       THEN unquotedCommas(line, i + 2, quoted)
  ELSE IF line[i] = "\"" THEN unquotedCommas(line, i + 1, ~quoted)
  ELSE (IF line[i] = "," /\ ~quoted THEN 1 ELSE 0) + unquotedCommas(line, i + 1, quoted)

\* the rows of the file that scrapeCSV parses
DataRows == IF csvLines(data) = <<>> THEN <<>> ELSE Tail(csvLines(data))

\* C22: parseCSVLine splits a row at the commas outside quoted sections, so
\* the number of fields is the number of those commas plus one; a row a CSV
\* writer made of quoted fields, commas and doubled quotes included, is read
\* back as those fields (trimmed); and the row
\* Hemp Seed, "High in Omega-3, Omega-6",seed has three fields, the second
\* High in Omega-3, Omega-6.
C22_ParseCSVLine ==
  LET rows == DataRows IN
  \A r \in DOMAIN rows :
    LET fields == parseCSVLine(rows[r]) IN
    /\ Len(fields) = unquotedCommas(rows[r], 1, FALSE) + 1
    /\ \A w \in Written :
         w[1] = rows[r] => fields = [k \in DOMAIN w[2] |-> trim(w[2][k])]
    /\ rows[r] = S("Hemp Seed, \"High in Omega-3, Omega-6\",seed") =>
         fields = << S("Hemp Seed"), S("High in Omega-3, Omega-6"), S("seed") >>

\* the row with the quoted comma has been parsed into a record, and so has a
\* row holding a doubled quote
C22_Witness ==
  /\ pc = "process"
  /\ Len(products) = 2
  /\ products[1].product_name = S("Hemp Seed")
  /\ products[1].description = S("High in Omega-3, Omega-6")
  /\ products[1].plant_part = S("seed")
  /\ products[2].product_name = S("He said \"hemp\"")

\* the first column whose lower-cased header contains a or b, 0 if none does
FirstColumn(header, a, b) ==
  LET headers == parseCSVLine(toLowerCase(header))
      named(k) == includes(headers[k], S(a)) \/ includes(headers[k], S(b))
  IN  IF \E k \in DOMAIN headers : named(k)
      THEN CHOOSE k \in DOMAIN headers : named(k) /\ \A j \in 1..(k - 1) : ~named(j)
      ELSE 0

\* the cells of the rows that have a non-empty cell in column n
RowsWithCell(rows, n) ==
  SelectSeq([r \in DOMAIN rows |-> parseCSVLine(rows[r])],
            LAMBDA cells : n >= 1 /\ n <= Len(cells) /\ cells[n] # <<>>)

\* C23: scrapeCSV maps the columns by substring match on the lower-cased
\* header, the first matching column winning, and returns one record per row
\* with a non-empty cell in the name column, in the order of the rows, with
\* the name, description and plant part of that row; a row without a name
\* cell, and every row of a file without a name or product column, gives no
\* record. Header Product Name,Use Case,Plant Part with the row
\* Hemp Fiber Rope,Used in textiles,fiber gives exactly one record.
C23_CsvRowsToRecords ==
  pc = "process" =>
    LET lines == csvLines(data)
        rows == DataRows
        n == IF lines = <<>> THEN 0 ELSE FirstColumn(lines[1], "product", "name")
        d == IF lines = <<>> THEN 0 ELSE FirstColumn(lines[1], "description", "use")
        p == IF lines = <<>> THEN 0 ELSE FirstColumn(lines[1], "part", "component")
        named == RowsWithCell(rows, n)
    IN
    /\ Len(products) = Len(named)
    /\ n = 0 => products = <<>>
    /\ \A i \in DOMAIN named :
         /\ products[i].product_name = named[i][n]
         /\ (d >= 1 /\ d <= Len(named[i])) => products[i].description = named[i][d]
         /\ (p >= 1 /\ p <= Len(named[i]) /\ named[i][p] # <<>>) =>
              products[i].plant_part = named[i][p]
    /\ ( /\ lines # <<>>
         /\ lines[1] = S("Product Name,Use Case,Plant Part")
         /\ rows = << S("Hemp Fiber Rope,Used in textiles,fiber") >> )
       => /\ Len(products) = 1
          /\ products[1].product_name = S("Hemp Fiber Rope")
          /\ products[1].description = S("Used in textiles")
          /\ products[1].plant_part = S("fiber")

\* the example file with a second row whose name cell is empty has been
\* scraped: one record
C23_Witness ==
  /\ pc = "process"
  /\ data = joinLines(<< S("Product Name,Use Case,Plant Part"),
                         S("Hemp Fiber Rope,Used in textiles,fiber"),
                         S(",Used in textiles,fiber") >>)
  /\ Len(products) = 1
  /\ products[1].product_name = S("Hemp Fiber Rope")
  /\ products[1].description = S("Used in textiles")
  /\ products[1].plant_part = S("fiber")

\* the text the keywords of an emitted record are taken from, lower-cased
C24_Text(product) ==
  toLowerCase(product.product_name \o <<" ">> \o product.description \o <<" ">>
                \o product.plant_part \o <<" ">> \o product.industry)

\* the tokens of a text as <<first position, word>>: the maximal runs of
\* word characters
C24_Tokens(text) ==
  { <<a, SubSeq(text, a, MinOf({b \in a..Len(text) :
                                  b = Len(text) \/ ~isWordChar(text[b + 1])}))>> :
      a \in {i \in DOMAIN text :
               isWordChar(text[i]) /\ (i = 1 \/ ~isWordChar(text[i - 1]))} }

\* C24: the keywords of every emitted record are taken from its cleaned
\* name, description, plant part and industry and from nothing else: each
\* is a token of that text longer than three characters that is no stop
\* word, none occurs twice, they stand in the order of their first
\* occurrence, there are at most 20, and a qualifying token is left out only
\* behind the twentieth.
C24_KeywordsRecomputed ==
  \A i \in DOMAIN unique :
    LET kw == unique[i].keywords
        tokens == C24_Tokens(C24_Text(unique[i]))
        qualifying == {t \in tokens : Len(t[2]) > 3 /\ t[2] \notin stopWords}
        first(word) == MinOf({t[1] : t \in {q \in qualifying : q[2] = word}})
    IN  /\ Len(kw) <= 20
        /\ \A k \in DOMAIN kw : \E t \in qualifying : t[2] = kw[k]
        /\ \A j, k \in DOMAIN kw : j < k => first(kw[j]) < first(kw[k])
        /\ \A t \in qualifying :
             (\A k \in DOMAIN kw : kw[k] # t[2]) =>
               Len(kw) = 20 /\ first(kw[20]) < t[1]

\* process() emitted a record that came with keywords of its own and whose
\* text holds more than 20 qualifying words
C24_Witness ==
  /\ Len(unique) = 2
  /\ products[2].keywords # <<>>
  /\ Len(unique[2].keywords) = 20
  /\ \A k \in 1..20 : unique[2].keywords[k] \notin {S("vegan"), S("construction")}

\* C25: the text cleanText returns has no white space at either end, no
\* control character, no bullet or dash in front and no two white-space
\* characters in a row, and cleaning it again leaves it as it is.
C25_CleanTextNormalised ==
  \A i \in DOMAIN unique :
    LET text == unique[i].description IN
    /\ text # <<>> => text[1] \notin LeadDecoration /\ text[Len(text)] \notin WhiteSpace
    /\ \A k \in DOMAIN text : text[k] \notin ControlChars
    /\ \A k \in 1..(Len(text) - 1) :
         ~(text[k] \in WhiteSpace /\ text[k + 1] \in WhiteSpace)
    /\ cleanText(text) = text

\* rows reported by the upserts that returned data, up to the k-th
RECURSIVE C26_Rows(_, _)
C26_Rows(upserts, k) ==
  IF k = 0 THEN 0
  ELSE C26_Rows(upserts, k - 1)
         + (IF upserts[k].outcome.kind = "data" THEN upserts[k].outcome.rows ELSE 0)

\* products handed over by the upserts up to the k-th
RECURSIVE C26_Handed(_, _)
C26_Handed(upserts, k) ==
  IF k = 0 THEN 0 ELSE C26_Handed(upserts, k - 1) + Len(upserts[k].batch)

\* C26: saveProducts hands its argument to the store in consecutive batches
\* of at most batchSize products, every product in one batch and in order;
\* a batch is attempted whatever the earlier ones did; count is the sum of
\* the rows of the batches that returned data; an empty argument is
\* answered without any upsert.
C26_BatchesPartitionInput ==
  LET given == save.products
      upserts == save.upserts
  IN  save.pc \in {"loop", "returned"} =>
        /\ \A k \in DOMAIN upserts :
             /\ Len(upserts[k].batch) \in 1..batchSize
             /\ upserts[k].batch =
                  SubSeq(given, C26_Handed(upserts, k - 1) + 1, C26_Handed(upserts, k))
        /\ save.count = C26_Rows(upserts, Len(upserts))
        /\ save.pc = "returned" => C26_Handed(upserts, Len(upserts)) = Len(given)
        /\ given = <<>> => upserts = <<>> /\ save.count = 0 /\ save.errors = <<>>

\* saveProducts has returned after an upsert that threw and a later one that
\* stored its one product
C26_Witness ==
  /\ save.pc = "returned"
  /\ Len(save.products) = batchSize + 1
  /\ Len(save.upserts) = 2
  /\ save.upserts[1].outcome.kind = "throw"
  /\ save.upserts[2].batch = << batchSize + 1 >>
  /\ save.count = 1

\* C27: a hash is in seenHashes only if its record has been handed to
\* saveProducts: once process() has returned or thrown, every hash added in
\* this run belongs to a record that was passed on.
C27_SeenOnlyIfStored ==
  pc # "process" =>
    \A h \in seenHashes \ history.startedWith :
      \E k \in DOMAIN history.emitted : history.emitted[k] = h

\* C28: when two runs are in progress at once, however their steps are
\* interleaved, no content hash belongs to a record in the unique list of
\* both: a record the one run has taken as new is a duplicate for the other.
C28_NoHashEmittedTwice ==
  Len(runs) = 2 =>
    \A i \in DOMAIN runs[1].unique, j \in DOMAIN runs[2].unique :
      hashKey(runs[1].unique[i]) # hashKey(runs[2].unique[j])

\* both runs are suspended at their await at once, the second after it has
\* counted as a duplicate the record the first is about to emit
C28_Witness ==
  /\ Len(runs) = 2
  /\ runs[1].pc = "enrich" /\ runs[2].pc = "enrich"
  /\ runs[2].duplicates = 1
  /\ runs[1].pending # runs[2].pending
  /\ runs[1].unique = <<>>

\* C29: at every point of a run the records saved and the duplicates
\* skipped are together no more than the records found, the store answering
\* an upsert with at most as many rows as it was given.
C29_SavedPlusSkippedAtMostFound ==
  result.products_saved + result.duplicates_skipped <= result.products_found

\* a run has saved a record of one source and skipped its duplicate, and has
\* found a record more than the two
C29_Witness ==
  /\ result.products_saved >= 1
  /\ result.duplicates_skipped >= 1
  /\ result.products_saved + result.duplicates_skipped < result.products_found

\* the labels extractPlantPart and extractIndustry return from a branch
C30_PartLabels ==
  { S("seed"), S("fiber"), S("flower"), S("leaf"), S("root"), S("stem"),
    S("whole plant") }

C30_IndustryLabels ==
  { S("Food & Nutrition"), S("Textiles"), S("Construction"), S("Automotive"),
    S("Cosmetics"), S("Pharmaceutical"), S("Paper"), S("Bioplastics"),
    S("Energy") }

\* C30: a record whose plant part extractPlantPart has set to 'unspecified'
\* or whose industry extractIndustry has set to 'Other' is rejected by
\* isValidProduct; a record that has one of the seven other plant parts and
\* one of the nine other industries, and that the other rules let through,
\* is accepted.
C30_DefaultLabelsRejected ==
  \A k \in DOMAIN history.checked :
    LET p == history.checked[k].product
        valid == history.checked[k].valid
    IN  /\ p.plant_part = extractPlantPart(data)
        /\ p.industry = extractIndustry(data)
        /\ p.plant_part \in C30_PartLabels \cup {S("unspecified")}
        /\ p.industry \in C30_IndustryLabels \cup {S("Other")}
        /\ (p.plant_part = S("unspecified") \/ p.industry = S("Other")) => ~valid
        /\ ( /\ p.plant_part \in C30_PartLabels
             /\ p.industry \in C30_IndustryLabels
             /\ Rule1(p) /\ Rule2(p) /\ Rule3(p) /\ Rule4(p) /\ Rule5(p) /\ Rule8(p) )
             => valid

\* process() has turned away a list item that names an industry and no
\* plant part
C30_Witness ==
  /\ data = S("Hemp:  energy")
  /\ prodIdx = 2
  /\ history.checked # <<>>
  /\ history.checked[1].product.plant_part = S("unspecified")
  /\ history.checked[1].product.industry = S("Energy")
  /\ ~history.checked[1].valid
  /\ unique = <<>>
====
